---------------------------- MODULE Spec2Model ----------------------------
(***************************************************************************)
(* A model of the Kaspeak SDK protocol engine: the payload frame and its   *)
(* signed preimage (models/payload.ts), the bounded dedup set              *)
(* (utils/limited-hash-set.ts), the event bus (sdk/event-bus.ts), the      *)
(* message registry and serializer, and the ingestion loop                 *)
(* Kaspeak.processTransactions (sdk/kaspeak.ts).                           *)
(*                                                                         *)
(* Conventions.  A byte is an integer 0..255, a byte array a sequence of   *)
(* bytes.  A hex string is a sequence of hex digits 0..15.  A text string  *)
(* (the session prefix) is a sequence of character codes.  JavaScript's    *)
(* microtask queue is a FIFO sequence of pending jobs.                     *)
(***************************************************************************)
EXTENDS Integers, Sequences, FiniteSets, TLC

(***************************************************************************)
(* Sequence helpers.                                                       *)
(***************************************************************************)
Rep(n, x) == [i \in 1..n |-> x]

Slice(s, from, to) ==
  IF to < from THEN <<>> ELSE [i \in 1..(to - from + 1) |-> s[from + i - 1]]

\* Uint8Array.subarray(lo, hi) with 0-based offsets, clamped to the buffer.
Subarray(buf, lo, hi) ==
  LET h == IF hi > Len(buf) THEN Len(buf) ELSE hi
      l == IF lo > h THEN h ELSE lo
  IN  Slice(buf, l + 1, h)

RECURSIVE Flatten(_)
Flatten(ss) == IF ss = <<>> THEN <<>> ELSE Head(ss) \o Flatten(Tail(ss))

IsPrefixOf(p, s) == Len(p) <= Len(s) /\ \A i \in 1..Len(p) : s[i] = p[i]

(***************************************************************************)
(* crypto/utils.ts: hex conversions.                                       *)
(***************************************************************************)
\* HEX[b]: the two lowercase hex digits of a byte.
HexOfByte(b) == <<b \div 16, b % 16>>

bytesToHex(bytes) ==
  [k \in 1..(2 * Len(bytes)) |-> HexOfByte(bytes[(k + 1) \div 2])[2 - (k % 2)]]

\* hexToBytes: callers are guarded by an even length (an odd length throws).
hexToBytes(hex) ==
  [i \in 1..(Len(hex) \div 2) |-> hex[2 * i - 1] * 16 + hex[2 * i]]

\* Number.prototype.toString(16): the hex digits without leading zeros.
RECURSIVE ToString16(_)
ToString16(n) ==
  IF n < 16 THEN <<n>> ELSE ToString16(n \div 16) \o <<n % 16>>

\* String.prototype.padStart(len, "0") on a hex string.
PadStart0(s, len) == IF Len(s) >= len THEN s ELSE Rep(len - Len(s), 0) \o s

(***************************************************************************)
(* sdk/constants.ts                                                        *)
(***************************************************************************)
HEADER_SIZE == 143
MARKER == <<75, 83, 80, 75>>
PROTOCOL_VERSION == 1
\* The literal "4b53504b" tested by processTransactions.
MarkerHex == <<4, 11, 5, 3, 5, 0, 4, 11>>


(***************************************************************************)
(* State.                                                                  *)
(***************************************************************************)
VARIABLES
  sigOracle,      \* the signatures made so far: a sequence of [priv, msg]
  prefixString,   \* Kaspeak.prefixString, as given to Kaspeak.create
  knownTxIds,     \* Kaspeak.knownTxIds: [queue, set] of a LimitedHashSet
  prefixFilterEnabled,            \* Kaspeak.#prefixFilterEnabled
  signatureVerificationEnabled,   \* Kaspeak.#signatureVerificationEnabled
  classes,        \* MessageRegistry.classes: type code -> entry
  universe,       \* the transactions the ledger may deliver in this run
  blocks,         \* the blocks delivered so far, in arrival order
  microtasks,     \* the microtask queue: suspended handlers, worker jobs
  emitted,        \* history: the KaspeakMessageReceived emissions, in order
  visited,        \* history: the transactions the loop has reached
  scheduled,      \* history: the worker jobs queued by callWorker
  workerRuns,     \* history: the worker jobs that have run
  logged,         \* history: the logger.error / logger.warn calls
  escaped,        \* an exception left processTransactions or a microtask
  settingCalls,   \* how many setter calls the application has made
  rpcRequests,    \* how many requests the session has sent to the node
  signedPl,       \* the payload as Payload.sign left it
  signedOut,      \* the outpointIds it was signed for
  curPl,          \* the payload now, after changes to its fields
  curOut,         \* the outpointIds argument of the next verify
  verdict,        \* what Payload.verify returned for curPl and curOut
  sigPhase,       \* "built" (constructed, not signed yet) or "signed"
  listeners,      \* EventBus.listeners[event]: the registered functions
  wrappers,       \* how many onceWrapper closures once() has created
  busTasks,       \* the microtasks emit() has queued and that have not run
  calls,          \* every invocation of an application listener, in order
  busLogged,      \* how many listener errors the bus has logged
  emits,          \* how many emit() calls were made
  captured,       \* per emit() call, the array of functions it cloned
  offs,           \* the off() calls made: [fn, wrappers, emits, calls] at the call
  busEscaped,     \* a listener's exception left its microtask uncaught
  wire,           \* the data bytes handed to MessageSerializer.decode
  wireType,       \* header.type of the message they came with
  decoded,        \* the key given to the last decode, and its result
  encoded,        \* the message the data bytes were encoded from, if any
  framePl,        \* the payload a frame was built from
  frameBuf,       \* the frame's bytes, as they reach Payload.fromBytes
  frameEdits,     \* how many changes were made to the bytes
  frameParsed,    \* what Payload.fromBytes made of frameBuf
  framePre,       \* the outpoint ids and the string buildMessage returned
  txIn,           \* tx.inputs of the transaction given to getOutpointIds
  txInAfter,      \* tx.inputs after the call
  outIdsOf,       \* whether getOutpointIds was called, and its result
  hsCap,          \* the capacity a LimitedHashSet was constructed with
  hs,             \* that set
  hsAdded,        \* the values given to its tryAdd, in order
  hsLast,         \* the last call on that set: what it was given, the set
                  \* before it, and what it returned
  regLog,         \* the registerMessage calls made: class, worker, outcome
  regAsk,         \* the last question put to the registry, and its answer
  created,        \* the last createPayload call and what it returned
  priorityFeeSompi, \* Kaspeak.#priorityFeeSompi
  feeLog,         \* the setPriorityFee calls made: argument, fee before, outcome
  rpcClients,     \* how many kaspa.RpcClient objects were created
  rpcLive,        \* KaspaWasm._rpc is set
  eventHandlers,  \* the size of KaspaWasm.eventHandlers
  connects,       \* Kaspeak.connect calls since the session was created
  passes,         \* per block delivered, the processTransactions calls on it
  chainIn,        \* chainKey, index and base key given to fromChainKey
  chainOut,       \* the identifiers computed along the chain
  sizeOut,        \* the last createPayload(data): data length and hex
  txAsk,          \* the last createTransaction: what the ledger was asked
  kaspaInitialized,       \* the module-level flag of wasm/kaspa
  zstdInitialized,        \* the module-level flag of utils/compression
  kaspaDefaultIsFunction, \* the kaspa-wasm build has a default init export
  wasmInits,      \* how many times each WASM initialisation was started
  ensureCalls,    \* the ensure...Initialized calls made, and where each is
  sessions,       \* the stage of each Kaspeak.create call
  balance,        \* #balance
  utxoCount,      \* #utxoCount
  balanceAsks     \* the getBalance calls awaiting the node's answer

ingestVars ==
  <<prefixString, knownTxIds, prefixFilterEnabled,
    signatureVerificationEnabled, classes, universe, blocks, microtasks,
    emitted, visited, scheduled, workerRuns, logged, escaped, settingCalls,
    rpcRequests>>

sigVars == <<sigOracle, signedPl, signedOut, curPl, curOut, verdict, sigPhase>>

busVars ==
  <<listeners, wrappers, busTasks, calls, busLogged, emits, captured, offs,
    busEscaped>>

decVars == <<wire, wireType, decoded, encoded>>

frameVars == <<framePl, frameBuf, frameEdits, frameParsed, framePre>>

outVars == <<txIn, txInAfter, outIdsOf>>

setVars == <<hsCap, hs, hsAdded, hsLast>>

regVars == <<regLog, regAsk, created>>

feeVars == <<priorityFeeSompi, feeLog>>

connVars == <<rpcClients, rpcLive, eventHandlers, connects, passes>>

chainVars == <<chainIn, chainOut>>

sizeVars == <<sizeOut, txAsk>>

wasmVars ==
  <<kaspaInitialized, zstdInitialized, kaspaDefaultIsFunction, wasmInits,
    ensureCalls, sessions>>

balVars == <<balance, utxoCount, balanceAsks>>

extVars == <<sizeVars, wasmVars, balVars>>

sessVars == <<regVars, feeVars, connVars, chainVars, extVars>>

pureVars == <<frameVars, outVars, setVars, sessVars>>

vars == <<ingestVars, sigVars, busVars, decVars, pureVars>>

(***************************************************************************)
(* Keys and signatures.  secp256k1 and the Schnorr primitives are          *)
(* kaspa-wasm's; they are modelled ideally.  G*priv is an injective        *)
(* 33-byte compressed point; a signature exists only if sign made it.      *)
(***************************************************************************)
PrivKeys == {6, 7}

\* kaspa.PrivateKey(priv).toPublicKey(): parity byte, then 32 bytes of x.
PubKeyOf(priv) == <<2 + (priv % 2)>> \o Rep(31, 0) \o <<priv>>

\* The 64 bytes of the idx-th signature made; 64 zero bytes are no signature.
EncodeSig(idx) == <<idx>> \o Rep(63, 170)

OracleIndex(oracle, priv, msg) ==
  IF \E i \in 1..Len(oracle) : oracle[i] = [priv |-> priv, msg |-> msg]
  THEN CHOOSE i \in 1..Len(oracle) : oracle[i] = [priv |-> priv, msg |-> msg]
  ELSE Len(oracle) + 1

\* Schnorr.sign: the oracle after signing, and the signature bytes.
SchnorrSign(oracle, msg, priv) ==
  LET idx == OracleIndex(oracle, priv, msg)
  IN  [oracle |-> IF idx > Len(oracle)
                    THEN Append(oracle, [priv |-> priv, msg |-> msg])
                    ELSE oracle,
       sig |-> EncodeSig(idx)]

\* Schnorr.verify: false for a wrong length; the key is x-only (the hex of
\* the compressed key without its first byte).
SchnorrVerify(oracle, signature, msg, pubHex) ==
  /\ Len(signature) = 64
  /\ LET xOnly == Slice(pubHex, 3, Len(pubHex))
     IN  \E i \in 1..Len(oracle) :
           /\ signature = EncodeSig(i)
           /\ oracle[i].msg = msg
           /\ Slice(bytesToHex(PubKeyOf(oracle[i].priv)), 3, 66) = xOnly

(***************************************************************************)
(* models/payload.ts                                                       *)
(***************************************************************************)
\* A faulty variant of readU16 that reads the high byte first.
readU16BigEndian(buf, off) == 256 * buf[off + 1] + buf[off + 2]

readU16(buf, off) == buf[off + 1] + 256 * buf[off + 2]

writeU16(val) == <<val % 256, (val \div 256) % 256>>

\* new Payload(...): throws for a type outside 16 bits or a key not 33 bytes.
PayloadCtorThrows(type, publicKey) ==
  type < 0 \/ type > 65535 \/ Len(publicKey) # 33

PayloadNew(prefix, type, id, publicKey, data) ==
  [marker |-> MARKER, version |-> PROTOCOL_VERSION, prefix |-> prefix,
   type |-> type, id |-> id, publicKey |-> publicKey,
   signature |-> Rep(64, 0), data |-> data]

\* out.set(this.prefix, 5) followed by the writes from offset 9 on: of a
\* prefix longer than 4 bytes only the first 4 stay in the frame, and a
\* shorter one leaves zeros.
prefixField(prefix) ==
  [i \in 1..4 |-> IF i <= Len(prefix) THEN prefix[i] ELSE 0]

toBytes(p) ==
  p.marker \o <<p.version>> \o prefixField(p.prefix) \o writeU16(p.type)
    \o p.id \o p.publicKey \o p.signature
    \o writeU16(Len(p.data) % 65536) \o p.data

toHex(p) == bytesToHex(toBytes(p))

\* A faulty variant of fromBytes that accepts any version byte.
fromBytesAnyVersion(bytes) ==
  IF Len(bytes) < HEADER_SIZE THEN [ok |-> FALSE, err |-> "Invalid payload size"]
  ELSE IF Subarray(bytes, 0, 4) # MARKER THEN [ok |-> FALSE, err |-> "Bad marker"]
  ELSE
    LET dataLen == bytes[142] + 256 * bytes[143]
        data == Subarray(bytes, 143, 143 + dataLen)
    IN  IF Len(data) # dataLen
          THEN [ok |-> FALSE, err |-> "Data length mismatch"]
          ELSE [ok |-> TRUE,
                p |-> [PayloadNew(Subarray(bytes, 5, 9),
                                  bytes[10] + 256 * bytes[11],
                                  Subarray(bytes, 11, 44),
                                  Subarray(bytes, 44, 77), data)
                         EXCEPT !.signature = Subarray(bytes, 77, 141),
                                !.version = bytes[5]]]

\* A faulty variant of fromBytes without the check of the data length.
fromBytesAnyLength(bytes) ==
  IF Len(bytes) < HEADER_SIZE THEN [ok |-> FALSE, err |-> "Invalid payload size"]
  ELSE IF Subarray(bytes, 0, 4) # MARKER THEN [ok |-> FALSE, err |-> "Bad marker"]
  ELSE IF bytes[5] # PROTOCOL_VERSION THEN [ok |-> FALSE, err |-> "Bad version"]
  ELSE
    [ok |-> TRUE,
     p |-> [PayloadNew(Subarray(bytes, 5, 9), bytes[10] + 256 * bytes[11],
                       Subarray(bytes, 11, 44), Subarray(bytes, 44, 77),
                       Subarray(bytes, 143,
                                143 + bytes[142] + 256 * bytes[143]))
              EXCEPT !.signature = Subarray(bytes, 77, 141)]]

\* Payload.fromBytes: [ok |-> TRUE, p |-> payload] or the error thrown.
fromBytes(bytes) ==
  IF Len(bytes) < HEADER_SIZE THEN [ok |-> FALSE, err |-> "Invalid payload size"]
  ELSE IF Subarray(bytes, 0, 4) # MARKER THEN [ok |-> FALSE, err |-> "Bad marker"]
  ELSE IF bytes[5] # PROTOCOL_VERSION THEN [ok |-> FALSE, err |-> "Bad version"]
  ELSE
    LET prefix == Subarray(bytes, 5, 9)
        type == readU16(bytes, 9)
        id == Subarray(bytes, 11, 44)
        publicKey == Subarray(bytes, 44, 77)
        signature == Subarray(bytes, 77, 141)
        dataLen == readU16(bytes, 141)
        data == Subarray(bytes, 143, 143 + dataLen)
    IN  IF Len(data) # dataLen
          THEN [ok |-> FALSE, err |-> "Data length mismatch"]
          ELSE [ok |-> TRUE,
                p |-> [PayloadNew(prefix, type, id, publicKey, data)
                         EXCEPT !.signature = signature]]

\* A faulty variant of fromHex that parses a frame of any version.
fromHexAnyVersion(hex) == fromBytesAnyVersion(hexToBytes(hex))

fromHex(hex) == fromBytes(hexToBytes(hex))

\* A faulty variant of buildMessage that writes the type as toBytes does,
\* low byte first.
buildMessageTypeLE(p, outIds) ==
  Flatten(<<bytesToHex(p.marker), PadStart0(ToString16(p.version), 2),
            bytesToHex(p.prefix), bytesToHex(<<p.type % 256, p.type \div 256>>),
            bytesToHex(p.id), bytesToHex(p.publicKey), bytesToHex(p.data),
            outIds>>)

\* A faulty variant of buildMessage that leaves the data out of the
\* preimage.
buildMessageNoData(p, outIds) ==
  Flatten(<<bytesToHex(p.marker), PadStart0(ToString16(p.version), 2),
            bytesToHex(p.prefix), PadStart0(ToString16(p.type), 4),
            bytesToHex(p.id), bytesToHex(p.publicKey), outIds>>)

\* Payload.buildMessage: the string that is signed and verified.
buildMessage(p, outIds) ==
  Flatten(<<bytesToHex(p.marker), PadStart0(ToString16(p.version), 2),
            bytesToHex(p.prefix), PadStart0(ToString16(p.type), 4),
            bytesToHex(p.id), bytesToHex(p.publicKey), bytesToHex(p.data),
            outIds>>)

\* Payload.sign: the oracle after signing and the signed payload.
sign(oracle, p, outIds, priv) ==
  LET r == SchnorrSign(oracle, buildMessage(p, outIds), priv)
  IN  [oracle |-> r.oracle, p |-> [p EXCEPT !.signature = r.sig]]

\* Payload.verify
verify(oracle, p, outIds) ==
  SchnorrVerify(oracle, p.signature, buildMessage(p, outIds),
                bytesToHex(p.publicKey))

\* Payload.getPrefix: decode the bytes as text and drop every NUL.
getPrefix(p) == SelectSeq(p.prefix, LAMBDA c : c # 0)

(***************************************************************************)
(* utils/limited-hash-set.ts                                               *)
(***************************************************************************)
\* The capacity the session gives its dedup set (5000 in kaspeak.ts:36),
\* scaled down so that eviction happens within the model's bounds.
Capacity == 2

EmptyHashSet == [queue |-> <<>>, set |-> {}]

has(s, value) == value \in s.set

\* A faulty variant of tryAdd that evicts one element too early.
tryAddEvictsEarly(s, value) ==
  IF has(s, value) THEN [s |-> s, ret |-> FALSE]
  ELSE
    LET full == Len(s.queue) >= Capacity - 1
        q == IF full /\ s.queue # <<>> THEN Tail(s.queue) ELSE s.queue
        st == IF full /\ s.queue # <<>> THEN s.set \ {Head(s.queue)} ELSE s.set
    IN  [s |-> [queue |-> Append(q, value), set |-> st \cup {value}],
         ret |-> TRUE]

\* A faulty variant of tryAdd that moves a value it already holds to the
\* back of the queue.
tryAddRefreshes(capacity, s, value) ==
  IF has(s, value)
    THEN [s |-> [queue |-> Append(SelectSeq(s.queue, LAMBDA x : x # value),
                                  value),
                 set |-> s.set],
          ret |-> FALSE]
  ELSE
    LET full == Len(s.queue) = capacity
        q == IF full THEN Tail(s.queue) ELSE s.queue
        st == IF full THEN s.set \ {Head(s.queue)} ELSE s.set
    IN  [s |-> [queue |-> Append(q, value), set |-> st \cup {value}],
         ret |-> TRUE]

\* A faulty variant of clear that empties the queue and leaves the hash set.
clearQueueOnly(s) == [queue |-> <<>>, set |-> s.set]

\* clear(): queue.length = 0 and set.clear().
clear(s) == [queue |-> <<>>, set |-> {}]

\* The size getter.
size(s) == Len(s.queue)

\* A faulty variant of tryAdd that evicts the newest element, not the
\* oldest.
tryAddEvictsNewest(capacity, s, value) ==
  IF has(s, value) THEN [s |-> s, ret |-> FALSE]
  ELSE
    LET full == Len(s.queue) = capacity
        q == IF full THEN SubSeq(s.queue, 1, Len(s.queue) - 1) ELSE s.queue
        st == IF full THEN s.set \ {s.queue[Len(s.queue)]} ELSE s.set
    IN  [s |-> [queue |-> Append(q, value), set |-> st \cup {value}],
         ret |-> TRUE]

\* tryAdd of a set constructed with the given capacity: the set afterwards
\* and the value returned.
tryAddWith(capacity, s, value) ==
  IF has(s, value) THEN [s |-> s, ret |-> FALSE]
  ELSE
    LET full == Len(s.queue) = capacity
        q == IF full THEN Tail(s.queue) ELSE s.queue
        st == IF full THEN s.set \ {Head(s.queue)} ELSE s.set
    IN  [s |-> [queue |-> Append(q, value), set |-> st \cup {value}],
         ret |-> TRUE]

\* tryAdd of the session's set.
tryAdd(s, value) == tryAddWith(Capacity, s, value)

(***************************************************************************)
(* sdk/message-registry.ts.  An entry is "none" (no class registered) or   *)
(* a record naming the worker: "none", "ok", or "throws" (a worker whose   *)
(* body raises).                                                           *)
(***************************************************************************)
NoEntry == [registered |-> FALSE, cls |-> "none", worker |-> "none"]

\* The entry register(ctor, worker) stores.
Entry(cls, worker) == [registered |-> TRUE, cls |-> cls, worker |-> worker]

\* The static requiresEncryption of the two message classes of the model.
RequiresEncryption(cls) == cls = "Secret"

\* A faulty variant of register that keeps the worker of the entry it
\* overwrites when none is given.
registerKeepsWorker(reg, ctor, worker) ==
  [reg EXCEPT ![ctor.messageType] =
     Entry(ctor.cls, IF worker = "none" THEN @.worker ELSE worker)]

\* register(ctor, worker): the entry of ctor.messageType is replaced.
register(reg, ctor, worker) ==
  [reg EXCEPT ![ctor.messageType] = Entry(ctor.cls, worker)]

\* A faulty variant of create that makes a default message for a code
\* without an entry.
createAlways(reg, key) == [out |-> "ok", cls |-> reg[key].cls]

\* create(key): throws for a code without an entry, else a new instance of
\* the entry's class.
create(reg, key) ==
  IF ~reg[key].registered THEN [out |-> "throw", cls |-> "none"]
  ELSE [out |-> "ok", cls |-> reg[key].cls]

\* getCtor(key): the class, or undefined.
getCtor(reg, key) == IF reg[key].registered THEN reg[key].cls ELSE "undefined"

\* A faulty variant of getWorker that answers undefined for a type code
\* without an entry instead of throwing.
getWorkerNeverThrows(reg, key) == FALSE

\* getWorker: throws for a type code without an entry.
getWorkerThrows(reg, key) == ~reg[key].registered

getWorker(reg, key) == reg[key].worker

(***************************************************************************)
(* sdk/kaspeak.ts: the session's pure helpers.                             *)
(***************************************************************************)
\* prefix.padEnd(4, "\0").slice(0, 4): four UTF-16 code units.
padEndSlice(prefix) == [i \in 1..4 |-> IF i <= Len(prefix) THEN prefix[i] ELSE 0]

\* TextEncoder: the UTF-8 bytes of one code unit of the basic plane.
utf8Encode(c) ==
  IF c < 128 THEN <<c>>
  ELSE IF c < 2048 THEN <<192 + (c \div 64), 128 + (c % 64)>>
  ELSE <<224 + (c \div 4096), 128 + ((c \div 64) % 64), 128 + (c % 64)>>

\* A faulty variant of PrefixBytes that takes each code unit for a byte.
PrefixBytesOfChars(prefix) == padEndSlice(prefix)

\* The constructor's prefixBytes:
\* new TextEncoder().encode(prefix.padEnd(4, "\0").slice(0, 4)).
PrefixBytes(prefix) ==
  LET s == padEndSlice(prefix)
  IN  utf8Encode(s[1]) \o utf8Encode(s[2]) \o utf8Encode(s[3])
        \o utf8Encode(s[4])

\* Array.prototype.sort by previousOutpoint.index: stable (insertion order
\* kept on ties).
\* A faulty variant of the insertion that puts an input before the inputs
\* of equal index (an unstable sort).
RECURSIVE InsertBeforeEqualIndex(_, _)
InsertBeforeEqualIndex(sorted, x) ==
  IF sorted = <<>> THEN <<x>>
  ELSE IF Head(sorted).index >= x.index THEN <<x>> \o sorted
  ELSE <<Head(sorted)>> \o InsertBeforeEqualIndex(Tail(sorted), x)

RECURSIVE InsertByIndex(_, _)
InsertByIndex(sorted, x) ==
  IF sorted = <<>> THEN <<x>>
  ELSE IF Head(sorted).index > x.index THEN <<x>> \o sorted
  ELSE <<Head(sorted)>> \o InsertByIndex(Tail(sorted), x)

RECURSIVE SortByIndex(_)
SortByIndex(inputs) ==
  IF inputs = <<>> THEN <<>>
  ELSE InsertByIndex(SortByIndex(SubSeq(inputs, 1, Len(inputs) - 1)),
                     inputs[Len(inputs)])

\* Kaspeak.getOutpointIds
getOutpointIds(tx) ==
  LET sorted == SortByIndex(tx.inputs)
  IN  Flatten([i \in 1..Len(sorted) |-> sorted[i].transactionId])

\* A faulty variant of registerMessage without the range check.
registerMessageUnchecked(reg, message, worker) ==
  [out |-> "ok", reg |-> register(reg, message, worker)]

\* Kaspeak.registerMessage: throws for a messageType outside 0..65535,
\* otherwise registers; the outcome and the registry afterwards.
registerMessage(reg, message, worker) ==
  IF message.messageType < 0 \/ message.messageType > 65535
    THEN [out |-> "throw", reg |-> reg]
    ELSE [out |-> "ok", reg |-> register(reg, message, worker)]

\* The check at the head of Kaspeak.createPayload.
createPayloadThrows(messageType) == messageType < 0 \/ messageType > 65535

\* tx.inputs after getOutpointIds: the sort works on the copy made by
\* slice(), the array of the transaction is left as it was.
inputsAfterGetOutpointIds(inputs) == inputs

\* Kaspeak.createPayload, before toHex: the oracle after signing and the
\* signed payload (the caller's type is in 0..65535).
createPayload(oracle, prefix, priv, outpointIds, messageType, id, data) ==
  sign(oracle,
       PayloadNew(PrefixBytes(prefix), messageType, id, PubKeyOf(priv), data),
       outpointIds, priv)

\* kaspa.PublicKey(hex).toAddress(): kaspa-wasm rejects a key that is no
\* compressed point; the address is modelled by the key itself.
getAddressFromPublicKeyThrows(publicKey) == publicKey[1] \notin {2, 3}

(***************************************************************************)
(* The ledger: the transactions a run may see.  Each is built the way a    *)
(* peer builds it (createPayload, then the payload hex placed in a         *)
(* transaction), and some are then damaged.  Transaction n spends outpoint *)
(* 0 of the transaction whose id is 64 times the hex digit n.              *)
(***************************************************************************)
TxIdHex(n) == Rep(64, n)

\* Message types: 1 has a worker, 2 a worker that throws, 3 an encrypted
\* class and no worker, 4 is not registered.
TypeCodes == 1..4

InitialClasses ==
  [t \in TypeCodes |->
     CASE t = 1 -> Entry("Plain", "ok")
       [] t = 2 -> Entry("Plain", "throws")
       [] t = 3 -> Entry("Secret", "none")
       [] OTHER -> NoEntry]

ForeignPrefix == <<75, 65, 83>>

\* What each ledger transaction is: the peer's prefix and type, and the
\* damage done to it (kinds of the ingestion filters).
TxKinds ==
  <<[prefix |-> "own",     type |-> 1, damage |-> "none"],
    [prefix |-> "own",     type |-> 2, damage |-> "none"],
    [prefix |-> "own",     type |-> 3, damage |-> "none"],
    [prefix |-> "own",     type |-> 4, damage |-> "none"],
    [prefix |-> "foreign", type |-> 1, damage |-> "none"],
    [prefix |-> "own",     type |-> 1, damage |-> "data"],
    [prefix |-> "own",     type |-> 1, damage |-> "verbose"],
    [prefix |-> "own",     type |-> 1, damage |-> "version"],
    [prefix |-> "own",     type |-> 1, damage |-> "cut142"],
    [prefix |-> "own",     type |-> 1, damage |-> "cut72"],
    [prefix |-> "own",     type |-> 1, damage |-> "cut71"],
    [prefix |-> "own",     type |-> 1, damage |-> "odd"],
    [prefix |-> "own",     type |-> 1, damage |-> "marker"]>>

LedgerTxIds == 1..Len(TxKinds)

TxInputs(n) == <<[transactionId |-> TxIdHex(n), index |-> 0]>>

TxPrefix(n, own) == IF TxKinds[n].prefix = "own" THEN own ELSE ForeignPrefix

\* The payload as its author built it, before signing.
TxUnsigned(n, own) ==
  PayloadNew(PrefixBytes(TxPrefix(n, own)), TxKinds[n].type, PubKeyOf(7),
             PubKeyOf(7), <<n>>)

\* Everything the peers have signed.
LedgerOracle(own) ==
  [n \in LedgerTxIds |->
     [priv |-> 7,
      msg |-> buildMessage(TxUnsigned(n, own),
                           getOutpointIds([inputs |-> TxInputs(n)]))]]

TxSigned(n, own) ==
  sign(LedgerOracle(own), TxUnsigned(n, own),
       getOutpointIds([inputs |-> TxInputs(n)]), 7).p

\* The payload as it sits in the transaction: data changed after signing,
\* or a version byte this protocol does not know.
TxPayload(n, own) ==
  LET p == TxSigned(n, own)
      d == TxKinds[n].damage
  IN  IF d = "data" THEN [p EXCEPT !.data = <<255>>]
      ELSE IF d = "version" THEN [p EXCEPT !.version = 2]
      ELSE IF d = "marker" THEN [p EXCEPT !.marker = <<75, 83, 80, 76>>]
      ELSE p

\* What is left of a payload hex after the damage: the first 142, 72 or
\* 71 bytes, or all but the last hex digit.
cutHex(hex, damage) ==
  IF damage = "cut142" THEN SubSeq(hex, 1, 284)
  ELSE IF damage = "cut72" THEN SubSeq(hex, 1, 144)
  ELSE IF damage = "cut71" THEN SubSeq(hex, 1, 142)
  ELSE IF damage = "odd" THEN SubSeq(hex, 1, Len(hex) - 1)
  ELSE hex

\* The payload hex of the transaction.
TxHex(n, own) == cutHex(toHex(TxPayload(n, own)), TxKinds[n].damage)

\* The prefixes a session is created with: "TEST" and the shorter "AB".
SessionPrefixes == {<<84, 69, 83, 84>>, <<65, 66>>}

\* A prefix of five characters, "ABCDE", which Kaspeak.create accepts too.
LongPrefix == <<65, 66, 67, 68, 69>>

OwnPrefixes == SessionPrefixes \cup {LongPrefix}

\* The ITransactions the blocks carry, for each session prefix.
Ledger ==
  [own \in OwnPrefixes |->
     [n \in LedgerTxIds |->
        [verboseData |-> TxKinds[n].damage # "verbose",
         transactionId |-> n,
         payload |-> TxHex(n, own),
         inputs |-> TxInputs(n)]]]

LedgerSignatures == [own \in OwnPrefixes |-> LedgerOracle(own)]

\* Kaspeak.parsePayload of each ledger payload (Payload.fromHex) and, for
\* those that parse, payload.verify(getOutpointIds(tx)): both are functions
\* of the transaction alone and are tabulated.
LedgerParsed ==
  [own \in OwnPrefixes |->
     [n \in LedgerTxIds |-> fromHex(Ledger[own][n].payload)]]

LedgerVerified ==
  [own \in OwnPrefixes |->
     [n \in LedgerTxIds |->
        /\ LedgerParsed[own][n].ok
        /\ verify(LedgerSignatures[own], LedgerParsed[own][n].p,
                  getOutpointIds(Ledger[own][n]))]]

TxOf(n) == Ledger[prefixString][n]

parsePayload(n) == LedgerParsed[prefixString][n]

verifyPayload(n) == LedgerVerified[prefixString][n]

(***************************************************************************)
(* sdk/kaspeak.ts: ingestion.  processTransactions is an async function:   *)
(* it runs synchronously up to `await payload.verify(...)`, where it       *)
(* suspends and its continuation is queued behind the microtasks already   *)
(* pending.  A run of the loop works on a record of the state it changes.  *)
(***************************************************************************)
MaxBlocks == 2
MaxBlockLen == 2
MaxSettingCalls == 2

CurrentRun ==
  [known |-> knownTxIds, micro |-> microtasks, emitted |-> emitted,
   visited |-> visited, scheduled |-> scheduled, logged |-> logged,
   escaped |-> escaped, rpc |-> rpcRequests]

\* A faulty variant of callWorker that runs the worker ahead of the
\* microtasks already queued.
callWorkerFirst(st, n, b, i, type) ==
  IF getWorkerThrows(classes, type) THEN [st |-> st, out |-> "throw"]
  ELSE IF getWorker(classes, type) = "none" THEN [st |-> st, out |-> "next"]
  ELSE
    LET job == [kind |-> "worker", tx |-> n, blk |-> b, pos |-> i,
                type |-> type, worker |-> getWorker(classes, type)]
    IN  [st |-> [st EXCEPT !.micro = <<job>> \o @,
                           !.scheduled = Append(@, job)],
         out |-> "next"]

\* Kaspeak.callWorker as called from the loop: getWorker throws into the
\* loop's try for a type without an entry; a class without a worker returns;
\* otherwise the worker is queued as a microtask.
callWorker(st, n, b, i, type) ==
  IF getWorkerThrows(classes, type) THEN [st |-> st, out |-> "throw"]
  ELSE IF getWorker(classes, type) = "none" THEN [st |-> st, out |-> "next"]
  ELSE
    LET job == [kind |-> "worker", tx |-> n, blk |-> b, pos |-> i,
                type |-> type, worker |-> getWorker(classes, type)]
    IN  [st |-> [st EXCEPT !.micro = Append(@, job),
                           !.scheduled = Append(@, job)],
         out |-> "next"]

\* A faulty variant of the guard of line 296 that lets every prefix through.
dispatchesAnyPrefix(prefix) == TRUE

\* The guard of line 296: only the session's own prefix reaches a worker.
dispatchesToWorker(prefix) == prefix = prefixString

\* A faulty variant of the guard of line 283 that filters nothing.
neverFiltered(prefix) == FALSE

\* The guard of line 283: the prefix filter drops a foreign prefix.
filteredByPrefix(prefix) == prefixFilterEnabled /\ prefix # prefixString

\* A faulty variant of emitMessage that asks the node for the balance
\* after the event, as sendTransaction does.
emitMessageAsksBalance(st, n, b, i, pfAtCheck) ==
  LET tx == TxOf(n)
      payload == parsePayload(n).p
      prefix == getPrefix(payload)
  IN  IF getAddressFromPublicKeyThrows(payload.publicKey)
        THEN [st |-> st, out |-> "throw"]
        ELSE
          LET ev == [tx |-> n, blk |-> b, pos |-> i,
                     header |-> [txid |-> tx.transactionId, prefix |-> prefix,
                                 type |-> payload.type],
                     data |-> payload.data,
                     pfAtCheck |-> pfAtCheck,
                     pf |-> prefixFilterEnabled,
                     sv |-> signatureVerificationEnabled]
              st2 == [st EXCEPT !.emitted = Append(@, ev), !.rpc = @ + 1]
          IN  IF dispatchesToWorker(prefix)
                THEN callWorker(st2, n, b, i, payload.type)
                ELSE [st |-> st2, out |-> "next"]

\* Lines 293-296: build the header, emit, dispatch the worker.
emitMessage(st, n, b, i, pfAtCheck) ==
  LET tx == TxOf(n)
      payload == parsePayload(n).p
      prefix == getPrefix(payload)
  IN  IF getAddressFromPublicKeyThrows(payload.publicKey)
        THEN [st |-> st, out |-> "throw"]
        ELSE
          LET ev == [tx |-> n, blk |-> b, pos |-> i,
                     header |-> [txid |-> tx.transactionId, prefix |-> prefix,
                                 type |-> payload.type],
                     data |-> payload.data,
                     pfAtCheck |-> pfAtCheck,
                     pf |-> prefixFilterEnabled,
                     sv |-> signatureVerificationEnabled]
              st2 == [st EXCEPT !.emitted = Append(@, ev)]
          IN  IF dispatchesToWorker(prefix)
                THEN callWorker(st2, n, b, i, payload.type)
                ELSE [st |-> st2, out |-> "next"]

\* Lines 274-287 for one transaction: "next" (continue), "throw" (into the
\* catch) or "await" (suspended at payload.verify).
tryBody(st, n, b, i) ==
  LET tx == TxOf(n)
      seen == [blk |-> b, pos |-> i, tx |-> n, known |-> st.known.set,
               pf |-> prefixFilterEnabled,
               sv |-> signatureVerificationEnabled, added |-> FALSE]
      st1 == [st EXCEPT !.visited = Append(@, seen)]
  IN  IF Len(tx.payload) % 2 = 1 THEN [st |-> st1, out |-> "next"]
      ELSE IF Len(tx.payload) < HEADER_SIZE THEN [st |-> st1, out |-> "next"]
      ELSE IF ~IsPrefixOf(MarkerHex, tx.payload) THEN [st |-> st1, out |-> "next"]
      ELSE IF ~tx.verboseData THEN [st |-> st1, out |-> "throw"]
      ELSE
        LET add == tryAdd(st.known, tx.transactionId)
        IN  IF ~add.ret THEN [st |-> st1, out |-> "next"]
            ELSE
              LET st2 == [st EXCEPT
                            !.known = add.s,
                            !.visited = Append(@, [seen EXCEPT !.added = TRUE])]
                  parsed == parsePayload(n)
              IN  IF ~parsed.ok THEN [st |-> st2, out |-> "throw"]
                  ELSE IF filteredByPrefix(getPrefix(parsed.p))
                    THEN [st |-> st2, out |-> "next"]
                  ELSE IF signatureVerificationEnabled
                    THEN [st |-> [st2 EXCEPT !.micro =
                                    Append(@, [kind |-> "resume", blk |-> b,
                                               pos |-> i,
                                               pfAtCheck |-> prefixFilterEnabled])],
                          out |-> "await"]
                  ELSE emitMessage(st2, n, b, i, prefixFilterEnabled)

\* A faulty variant of afterVerify that ignores what verify returned.
afterVerifyIgnored(st, n, b, i, pfAtCheck) ==
  emitMessage(st, n, b, i, pfAtCheck)

\* Lines 287-296 when the awaited verification settles.
afterVerify(st, n, b, i, pfAtCheck) ==
  LET verified == verifyPayload(n)
  IN  IF ~verified
        THEN [st |-> [st EXCEPT !.logged =
                        Append(@, [kind |-> "warn", blk |-> b, pos |-> i])],
              out |-> "next"]
        ELSE emitMessage(st, n, b, i, pfAtCheck)

\* A faulty variant of the catch clause that lets the exception out.
catchRethrows(st, b, i) == [st EXCEPT !.escaped = TRUE]

\* The catch clause (lines 297-299): log, and go on with the next one.
catch(st, b, i) ==
  [st EXCEPT !.logged = Append(@, [kind |-> "error", blk |-> b, pos |-> i])]

\* The for loop from transaction i of block b on, given how the body of
\* transaction i - 1 ended.
RECURSIVE loopFrom(_, _, _, _)
loopFrom(r, blk, b, i) ==
  LET st == IF r.out = "throw" THEN catch(r.st, b, i - 1) ELSE r.st
  IN  IF r.out = "await" \/ st.escaped \/ i > Len(blk) THEN st
      ELSE loopFrom(tryBody(st, blk[i], b, i), blk, b, i + 1)

\* processTransactions(block): the first synchronous run.
processTransactions(st, blk, b) ==
  loopFrom([st |-> st, out |-> "next"], blk, b, 1)

\* The continuation of a suspended processTransactions.
resumeTransactions(st, job) ==
  LET blk == blocks[job.blk]
  IN  loopFrom(afterVerify(st, blk[job.pos], job.blk, job.pos, job.pfAtCheck),
               blk, job.blk, job.pos + 1)

Commit(st) ==
  /\ knownTxIds' = st.known
  /\ microtasks' = st.micro
  /\ emitted' = st.emitted
  /\ visited' = st.visited
  /\ scheduled' = st.scheduled
  /\ logged' = st.logged
  /\ escaped' = st.escaped
  /\ rpcRequests' = st.rpc

BlockChoices ==
  UNION {[1..k -> universe] : k \in 1..MaxBlockLen}

\* The block-added listener of KaspaWasm calls each subscriber without
\* awaiting it: a block is handed to processTransactions whenever the node
\* announces it, also while an earlier block is suspended.
BlockAdded(blk) ==
  /\ Len(blocks) < MaxBlocks
  /\ blocks' = Append(blocks, blk)
  /\ Commit(processTransactions(CurrentRun, blk, Len(blocks) + 1))
  /\ UNCHANGED <<pureVars, sigVars, busVars, decVars, prefixString, prefixFilterEnabled,
                 signatureVerificationEnabled, classes, universe, workerRuns,
                 settingCalls>>

\* The microtask at the head is a suspended processTransactions.
ResumeVerify ==
  /\ microtasks # <<>>
  /\ Head(microtasks).kind = "resume"
  /\ Commit(resumeTransactions([CurrentRun EXCEPT !.micro = Tail(microtasks)],
                               Head(microtasks)))
  /\ UNCHANGED <<pureVars, sigVars, busVars, decVars, prefixString, prefixFilterEnabled,
                 signatureVerificationEnabled, classes, universe, blocks,
                 workerRuns, settingCalls>>

\* The microtask at the head is a worker job (callWorker's closure): the
\* worker runs inside try/catch, an exception is logged.
RunWorker ==
  /\ microtasks # <<>>
  /\ Head(microtasks).kind = "worker"
  /\ microtasks' = Tail(microtasks)
  /\ workerRuns' = Append(workerRuns, Head(microtasks))
  /\ logged' = IF Head(microtasks).worker = "throws"
                 THEN Append(logged, [kind |-> "worker-error",
                                      blk |-> Head(microtasks).blk,
                                      pos |-> Head(microtasks).pos])
                 ELSE logged
  /\ UNCHANGED <<pureVars, sigVars, busVars, decVars, prefixString, knownTxIds, prefixFilterEnabled,
                 signatureVerificationEnabled, classes, universe, blocks,
                 emitted, visited, scheduled, escaped, settingCalls,
                 rpcRequests>>

SetPrefixFilterEnabled(enabled) ==
  /\ settingCalls < MaxSettingCalls
  /\ settingCalls' = settingCalls + 1
  /\ prefixFilterEnabled' = enabled
  /\ UNCHANGED <<pureVars, sigVars, busVars, decVars, prefixString, knownTxIds,
                 signatureVerificationEnabled, classes, universe, blocks,
                 microtasks, emitted, visited, scheduled, workerRuns, logged,
                 escaped, rpcRequests>>

SetSignatureVerificationEnabled(enabled) ==
  /\ settingCalls < MaxSettingCalls
  /\ settingCalls' = settingCalls + 1
  /\ signatureVerificationEnabled' = enabled
  /\ UNCHANGED <<pureVars, sigVars, busVars, decVars, prefixString, knownTxIds, prefixFilterEnabled,
                 classes, universe, blocks, microtasks, emitted, visited,
                 scheduled, workerRuns, logged, escaped, rpcRequests>>

\* The transactions a run draws its blocks from: every kind of transaction
\* appears beside an intact one of the session's own prefix.
Universes == {{1, 2, 3}, {2, 4, 5}, {1, 6, 7}, {2, 6, 8}}

\* A session after Kaspeak.create and the application's registerMessage
\* calls, before the first block.
IngestFresh ==
  /\ knownTxIds = EmptyHashSet
  /\ prefixFilterEnabled = TRUE
  /\ signatureVerificationEnabled = TRUE
  /\ classes = InitialClasses
  /\ blocks = <<>>
  /\ microtasks = <<>>
  /\ emitted = <<>>
  /\ visited = <<>>
  /\ scheduled = <<>>
  /\ workerRuns = <<>>
  /\ logged = <<>>
  /\ escaped = FALSE
  /\ settingCalls = 0
  /\ rpcRequests = 0

\* No payload under construction.
SigIdle ==
  /\ sigOracle = <<>>
  /\ signedPl = PayloadNew(PrefixBytes(<<>>), 0, PubKeyOf(6), PubKeyOf(6), <<>>)
  /\ curPl = signedPl
  /\ signedOut = <<>> /\ curOut = <<>>
  /\ verdict = "none" /\ sigPhase = "built"

\* A bus without listeners.
BusFresh ==
  /\ listeners = <<>> /\ wrappers = 0 /\ busTasks = <<>>
  /\ calls = <<>> /\ busLogged = 0 /\ emits = 0
  /\ captured = <<>> /\ offs = {} /\ busEscaped = FALSE

\* Nothing to decode yet.
DecIdle ==
  /\ wire = [t |-> "empty"] /\ wireType = 1
  /\ decoded = [key |-> "none", result |-> [kind |-> "none"]]
  /\ encoded = [made |-> FALSE, threw |-> FALSE, cls |-> "none",
                obj |-> "none", key |-> "none"]

\* No frame, transaction or set under test.
FrameIdle ==
  /\ framePl = PayloadNew(PrefixBytes(<<>>), 0, PubKeyOf(6), PubKeyOf(6), <<>>)
  /\ frameBuf = <<>> /\ frameEdits = 0
  /\ frameParsed = [done |-> FALSE, r |-> [ok |-> FALSE, err |-> "none"]]
  /\ framePre = [called |-> FALSE, outIds |-> <<>>, msg |-> <<>>]

OutIdle ==
  /\ txIn = <<>> /\ txInAfter = <<>>
  /\ outIdsOf = <<>>

NoSetCall == [op |-> "none", value |-> 0, before |-> EmptyHashSet, ret |-> FALSE]

SetIdle ==
  /\ hsCap = Capacity /\ hs = EmptyHashSet /\ hsAdded = <<>>
  /\ hsLast = NoSetCall

NotCreated ==
  [out |-> "none", type |-> 0, prefix |-> <<>>, hex |-> <<>>,
   signed |-> FALSE]

\* No question put to the registry, no payload created.
RegIdle ==
  /\ regLog = <<>>
  /\ regAsk = [op |-> "none", key |-> 0, out |-> "none", cls |-> "none",
               worker |-> "none"]
  /\ created = NotCreated

\* #priorityFeeSompi = 0n
FeeIdle == priorityFeeSompi = [kas |-> 0, sompi |-> 0] /\ feeLog = <<>>

\* A session that never connected.
ConnIdle ==
  /\ rpcClients = 0 /\ rpcLive = FALSE /\ eventHandlers = 0
  /\ connects = 0 /\ passes = <<>>

NoChain ==
  [op |-> "none", out |-> "none", id |-> <<>>, at |-> 0, steps |-> 0,
   fromId |-> <<>>, c |-> 0]

ChainIdle ==
  /\ chainIn = [k |-> 1, i |-> 1, pk |-> 1]
  /\ chainOut = NoChain

NoSize == [done |-> FALSE, L |-> 0, hex |-> <<>>]

NoTxAsk ==
  [done |-> FALSE, dataLength |-> 0, payloadSize |-> 0,
   priorityFee |-> [kas |-> 0, sompi |-> 0]]

SizeIdle == sizeOut = NoSize /\ txAsk = NoTxAsk

WasmIdle ==
  /\ kaspaInitialized = FALSE /\ zstdInitialized = FALSE
  /\ kaspaDefaultIsFunction = TRUE
  /\ wasmInits = [kaspa |-> 0, zstd |-> 0]
  /\ ensureCalls = <<>> /\ sessions = <<>>

\* #balance = 0, #utxoCount = 0, nothing asked.
BalIdle == balance = 0 /\ utxoCount = 0 /\ balanceAsks = 0

ExtIdle == SizeIdle /\ WasmIdle /\ BalIdle

SessIdle == RegIdle /\ FeeIdle /\ ConnIdle /\ ChainIdle /\ ExtIdle

PureIdle == FrameIdle /\ OutIdle /\ SetIdle /\ SessIdle

Init ==
  /\ prefixString \in SessionPrefixes
  /\ universe \in Universes
  /\ IngestFresh
  /\ SigIdle
  /\ BusFresh
  /\ DecIdle
  /\ PureIdle

Next ==
  \/ \E blk \in BlockChoices : BlockAdded(blk)
  \/ ResumeVerify
  \/ RunWorker
  \/ \E e \in BOOLEAN : SetPrefixFilterEnabled(e)
  \/ \E e \in BOOLEAN : SetSignatureVerificationEnabled(e)

Spec == Init /\ [][Next]_vars

(***************************************************************************)
(* Properties of ingestion.  The histories emitted, visited, scheduled,    *)
(* workerRuns and logged record what the session did; TxKinds is the       *)
(* ground truth about each transaction of the ledger.                      *)
(***************************************************************************)
EmittedAt(b, i) == \E k \in 1..Len(emitted) : emitted[k].blk = b /\ emitted[k].pos = i

ScheduledAt(b, i) ==
  \E k \in 1..Len(scheduled) : scheduled[k].blk = b /\ scheduled[k].pos = i

PendingAt(b, i) ==
  \E k \in 1..Len(microtasks) :
    /\ microtasks[k].kind = "resume"
    /\ microtasks[k].blk = b /\ microtasks[k].pos = i

VisitedAt(b, i) == \E k \in 1..Len(visited) : visited[k].blk = b /\ visited[k].pos = i

\* The visit of transaction i of block b, and how many ids the dedup set
\* had accepted up to and including visit k.
VisitOf(b, i) == CHOOSE k \in 1..Len(visited) : visited[k].blk = b /\ visited[k].pos = i

AddsBetween(k1, k2) == {m \in (k1 + 1)..k2 : visited[m].added}

OtherIdsAddedBetween(k1, k2) ==
  {visited[m].tx : m \in AddsBetween(k1, k2)} \ {visited[k1].tx}

\* C1 as stated: KaspeakMessageReceived is emitted at most once per
\* transaction id, whatever was delivered in between.
C1_AtMostOncePerTxId ==
  \A i, j \in 1..Len(emitted) :
    i < j => emitted[i].header.txid # emitted[j].header.txid

\* C1 amended: two events for one transaction id happen only when at least
\* Capacity other distinct ids entered the dedup set between the two
\* deliveries; a redelivery before that is skipped.
C1_AtMostOnceWithinCapacity ==
  /\ \A i, j \in 1..Len(emitted) :
       (i # j /\ emitted[i].header.txid = emitted[j].header.txid
          /\ VisitOf(emitted[i].blk, emitted[i].pos)
               < VisitOf(emitted[j].blk, emitted[j].pos))
       => Cardinality(OtherIdsAddedBetween(
              VisitOf(emitted[i].blk, emitted[i].pos),
              VisitOf(emitted[j].blk, emitted[j].pos) - 1)) >= Capacity
  /\ \A k \in 1..Len(visited) :
       visited[k].tx \in visited[k].known =>
         ~visited[k].added /\ ~EmittedAt(visited[k].blk, visited[k].pos)

\* C1 witness: a transaction was delivered a second time while its id was
\* still in the dedup set, and it has one event.
C1_Witness ==
  \E k1, k2 \in 1..Len(visited) :
    /\ k1 < k2 /\ visited[k1].tx = visited[k2].tx
    /\ visited[k1].added /\ visited[k2].tx \in visited[k2].known
    /\ EmittedAt(visited[k1].blk, visited[k1].pos)
    /\ ~EmittedAt(visited[k2].blk, visited[k2].pos)
    /\ microtasks = <<>>

\* C2 as stated: events follow delivery order, block by block and within a
\* block by position.
C2_EmissionsFollowDeliveryOrder ==
  \A i, j \in 1..Len(emitted) :
    (\/ emitted[i].blk < emitted[j].blk
     \/ (emitted[i].blk = emitted[j].blk /\ emitted[i].pos < emitted[j].pos))
    => i < j

LoggedAt(kind, b, i) ==
  \E k \in 1..Len(logged) :
    logged[k].kind = kind /\ logged[k].blk = b /\ logged[k].pos = i

\* A delivered transaction that passes every ingestion filter by itself,
\* under the settings and the dedup set it met.
PassesAlone(v) ==
  /\ v.tx \notin v.known
  /\ TxKinds[v.tx].damage \in (IF v.sv THEN {"none"} ELSE {"none", "data"})
  /\ v.pf => TxKinds[v.tx].prefix = "own"

\* C3: one bad transaction cannot abort block processing: the loop gets to
\* every transaction of every block, each transaction that passes the
\* filters by itself is emitted (or is awaiting its verification), and
\* processTransactions never fails to its caller.
C3_BadTransactionDoesNotAbort ==
  /\ ~escaped
  /\ \A b \in 1..Len(blocks) : \A i \in 1..Len(blocks[b]) :
       VisitedAt(b, i) \/ \E i0 \in 1..(i - 1) : PendingAt(b, i0)
  /\ \A k \in 1..Len(visited) :
       PassesAlone(visited[k]) =>
         \/ EmittedAt(visited[k].blk, visited[k].pos)
         \/ PendingAt(visited[k].blk, visited[k].pos)

\* C3 witness: a block that starts with a transaction without verboseData,
\* whose exception was logged, and whose second transaction was emitted.
C3_Witness ==
  \E b \in 1..Len(blocks) :
    /\ Len(blocks[b]) = 2
    /\ TxKinds[blocks[b][1]].damage = "verbose"
    /\ LoggedAt("error", b, 1)
    /\ EmittedAt(b, 2)

\* C4: while signature verification is enabled, every event and every
\* worker dispatch is for a payload whose verify(getOutpointIds(tx)) is
\* true, and a payload whose verification is false has no event and no
\* worker.
C4_OnlyVerifiedPayloadsEmitted ==
  /\ \A k \in 1..Len(emitted) : emitted[k].sv => verifyPayload(emitted[k].tx)
  /\ \A k \in 1..Len(scheduled) :
       \E m \in 1..Len(emitted) :
         /\ emitted[m].blk = scheduled[k].blk /\ emitted[m].pos = scheduled[k].pos
         /\ emitted[m].sv => verifyPayload(scheduled[k].tx)
  /\ \A k \in 1..Len(visited) :
       (visited[k].sv /\ visited[k].added /\ ~verifyPayload(visited[k].tx))
       => /\ ~EmittedAt(visited[k].blk, visited[k].pos)
          /\ ~ScheduledAt(visited[k].blk, visited[k].pos)

\* C4 witness: with verification enabled, a payload changed after signing
\* was verified, warned about and dropped; an intact one was emitted.
C4_Witness ==
  /\ \E k \in 1..Len(visited) :
       /\ visited[k].sv /\ TxKinds[visited[k].tx].damage = "data"
       /\ LoggedAt("warn", visited[k].blk, visited[k].pos)
       /\ ~EmittedAt(visited[k].blk, visited[k].pos)
  /\ \E k \in 1..Len(emitted) : emitted[k].sv /\ verifyPayload(emitted[k].tx)

\* C5 as stated: every event emitted while the prefix filter is enabled
\* carries the session's prefix.
C5_OwnPrefixWhileFilterEnabled ==
  \A k \in 1..Len(emitted) :
    emitted[k].pf => emitted[k].header.prefix = prefixString

\* C5 amended: every event of a transaction that reached the prefix check
\* while the filter was enabled carries the session's prefix, and a
\* transaction with another prefix checked then has no event.
C5_OwnPrefixWhenCheckedWithFilter ==
  /\ \A k \in 1..Len(emitted) :
       emitted[k].pfAtCheck => emitted[k].header.prefix = prefixString
  /\ \A k \in 1..Len(visited) :
       (visited[k].pf /\ visited[k].added
          /\ TxKinds[visited[k].tx].prefix = "foreign")
       => ~EmittedAt(visited[k].blk, visited[k].pos)

\* C5 witness: a foreign-prefix transaction met the enabled filter and has
\* no event, beside an emitted one of the session's prefix.
C5_Witness ==
  /\ \E k \in 1..Len(visited) :
       /\ visited[k].pf /\ visited[k].added
       /\ TxKinds[visited[k].tx].prefix = "foreign"
       /\ ~EmittedAt(visited[k].blk, visited[k].pos)
  /\ \E k \in 1..Len(emitted) :
       emitted[k].pfAtCheck /\ emitted[k].header.prefix = prefixString
  /\ microtasks = <<>>

\* C6: a worker is scheduled exactly for the emitted messages with the
\* session's prefix and a registered worker for their type; a worker that
\* throws is logged and block processing never sees the error.
C6_WorkerScheduledIff ==
  /\ \A k \in 1..Len(emitted) :
       ScheduledAt(emitted[k].blk, emitted[k].pos)
       <=> /\ emitted[k].header.prefix = prefixString
           /\ classes[emitted[k].header.type].registered
           /\ classes[emitted[k].header.type].worker # "none"
  /\ \A k \in 1..Len(scheduled) : EmittedAt(scheduled[k].blk, scheduled[k].pos)
  /\ \A k \in 1..Len(workerRuns) :
       /\ ScheduledAt(workerRuns[k].blk, workerRuns[k].pos)
       /\ workerRuns[k].worker = "throws"
            => LoggedAt("worker-error", workerRuns[k].blk, workerRuns[k].pos)
  /\ ~escaped

\* C6 witness: with the filter disabled a foreign-prefix message was
\* emitted and got no worker, and a throwing worker ran for a message of
\* the session's prefix.
C6_Witness ==
  /\ \E k \in 1..Len(emitted) :
       /\ ~emitted[k].pfAtCheck
       /\ emitted[k].header.prefix # prefixString
       /\ ~ScheduledAt(emitted[k].blk, emitted[k].pos)
  /\ \E k \in 1..Len(workerRuns) :
       /\ workerRuns[k].worker = "throws"
       /\ LoggedAt("worker-error", workerRuns[k].blk, workerRuns[k].pos)
  /\ microtasks = <<>>

\* C23 as stated: an emitted message of a type that was never registered
\* raises no error in block processing.
C23_UnregisteredTypeRaisesNoError ==
  \A k \in 1..Len(emitted) :
    ~classes[emitted[k].header.type].registered
      => ~LoggedAt("error", emitted[k].blk, emitted[k].pos)

\* C23, amended: getWorker throws for a type code without an entry.  An
\* ingested message of the session's prefix and of an unregistered type is
\* emitted and gets no worker; the error raised by callWorker is caught by
\* the loop's catch clause and logged, and never leaves
\* processTransactions.  A registered type without a worker raises nothing.
C23_UnregisteredTypeEmittedAndLogged ==
  /\ \A k \in 1..Len(emitted) :
       emitted[k].header.prefix = prefixString =>
         /\ ~classes[emitted[k].header.type].registered
              => /\ getWorkerThrows(classes, emitted[k].header.type)
                 /\ ~ScheduledAt(emitted[k].blk, emitted[k].pos)
                 /\ LoggedAt("error", emitted[k].blk, emitted[k].pos)
         /\ classes[emitted[k].header.type].registered
              => ~LoggedAt("error", emitted[k].blk, emitted[k].pos)
  /\ ~escaped

\* C23 witness: a message of an unregistered type was emitted, its error
\* was logged, and the loop went on to the next transaction of the block.
C23_Witness ==
  \E k \in 1..Len(emitted) :
    /\ emitted[k].header.prefix = prefixString
    /\ ~classes[emitted[k].header.type].registered
    /\ LoggedAt("error", emitted[k].blk, emitted[k].pos)
    /\ ~ScheduledAt(emitted[k].blk, emitted[k].pos)
    /\ EmittedAt(emitted[k].blk, emitted[k].pos + 1)

\* The place of the event of transaction i of block b among the events.
EmissionOf(b, i) ==
  CHOOSE k \in 1..Len(emitted) : emitted[k].blk = b /\ emitted[k].pos = i

\* Worker invocations of one type follow the order of the events of their
\* messages, and each comes after the event of its own delivery.
WorkersFollowEmissions ==
  /\ \A k \in 1..Len(workerRuns) :
       /\ EmittedAt(workerRuns[k].blk, workerRuns[k].pos)
       /\ emitted[EmissionOf(workerRuns[k].blk, workerRuns[k].pos)].tx
            = workerRuns[k].tx
       /\ emitted[EmissionOf(workerRuns[k].blk, workerRuns[k].pos)].header.type
            = workerRuns[k].type
  /\ \A i, j \in 1..Len(workerRuns) :
       (i < j /\ workerRuns[i].type = workerRuns[j].type)
       => EmissionOf(workerRuns[i].blk, workerRuns[i].pos)
            < EmissionOf(workerRuns[j].blk, workerRuns[j].pos)
  /\ \A i, j \in 1..Len(workerRuns) :
       (i # j) => \/ workerRuns[i].blk # workerRuns[j].blk
                  \/ workerRuns[i].pos # workerRuns[j].pos

\* C36 as stated: worker invocations of a type follow the order of the
\* events, each comes after the event of its transaction, and a worker is
\* invoked at most once per transaction id.
C36_WorkerOncePerTxId ==
  /\ WorkersFollowEmissions
  /\ \A i, j \in 1..Len(workerRuns) :
       i # j => workerRuns[i].tx # workerRuns[j].tx

\* C36 amended: the order and the precedence hold, a worker is invoked at
\* most once per delivery, and two invocations for one transaction id
\* happen only when at least Capacity other ids entered the dedup set
\* between the two deliveries.
C36_WorkerOncePerTxIdWithinCapacity ==
  /\ WorkersFollowEmissions
  /\ \A i, j \in 1..Len(workerRuns) :
       (/\ i # j /\ workerRuns[i].tx = workerRuns[j].tx
        /\ VisitOf(workerRuns[i].blk, workerRuns[i].pos)
             < VisitOf(workerRuns[j].blk, workerRuns[j].pos))
       => Cardinality(OtherIdsAddedBetween(
              VisitOf(workerRuns[i].blk, workerRuns[i].pos),
              VisitOf(workerRuns[j].blk, workerRuns[j].pos) - 1)) >= Capacity

\* C36 witness: two messages of one type were emitted and their workers
\* ran in that order, and a transaction delivered again while its id was
\* in the dedup set got no second worker.
C36_Witness ==
  /\ \E i, j \in 1..Len(workerRuns) :
       /\ i < j /\ workerRuns[i].type = workerRuns[j].type
       /\ workerRuns[i].tx # workerRuns[j].tx
       /\ \E k \in 1..Len(visited) :
            /\ visited[k].tx = workerRuns[i].tx
            /\ visited[k].tx \in visited[k].known
            /\ ~ScheduledAt(visited[k].blk, visited[k].pos)
  /\ microtasks = <<>>

\* The transactions whose frame breaks a structural invariant of
\* Payload.fromBytes, and those whose frame is sound but whose signature does
\* not verify.
StructurallyInvalidKinds == {"version", "cut142", "cut72"}

PassesDedupAndPrefix(v) ==
  /\ v.added
  /\ v.pf => TxKinds[v.tx].prefix = "own"

FilterUniverses == {{1, 9, 10}, {1, 11, 12}, {1, 9, 13}}

InitFilter ==
  /\ prefixString \in SessionPrefixes
  /\ universe \in FilterUniverses
  /\ IngestFresh /\ SigIdle /\ BusFresh /\ DecIdle /\ PureIdle

SpecFilter == InitFilter /\ [][Next]_vars

PreFilteredKinds == {"cut142", "cut72", "cut71", "odd", "marker"}

\* C32: a transaction whose payload is shorter than 143 bytes, has an odd
\* number of hex characters or lacks the marker is skipped before the dedup
\* step: no event, no error logged, and its id is not added to the set.
C32_ShortPayloadSkippedBeforeDedup ==
  \A k \in 1..Len(visited) :
    TxKinds[visited[k].tx].damage \in PreFilteredKinds
      => /\ ~EmittedAt(visited[k].blk, visited[k].pos)
         /\ ~LoggedAt("error", visited[k].blk, visited[k].pos)
         /\ ~visited[k].added

(***************************************************************************)
(* A session and its own traffic (SpecOwn): sessions created with a prefix *)
(* of two, four and five characters receive blocks that carry payloads     *)
(* framed with the session's own prefixBytes.                              *)
(***************************************************************************)
InitOwn ==
  /\ prefixString \in OwnPrefixes
  /\ universe = {1, 2}
  /\ IngestFresh /\ SigIdle /\ BusFresh /\ DecIdle /\ PureIdle

SpecOwn == InitOwn /\ [][Next]_vars

\* C39: for every prefix Kaspeak.create accepts, a payload framed with the
\* session's prefix that reaches the enabled prefix filter passes it, is
\* emitted once its verification has settled, and is dispatched to the
\* worker registered for its type.
C39_SessionAcceptsOwnTraffic ==
  \A k \in 1..Len(visited) :
    (/\ visited[k].added /\ visited[k].pf
     /\ TxKinds[visited[k].tx].prefix = "own"
     /\ TxKinds[visited[k].tx].damage = "none")
    => \/ PendingAt(visited[k].blk, visited[k].pos)
       \/ /\ EmittedAt(visited[k].blk, visited[k].pos)
          /\ getWorker(classes, TxKinds[visited[k].tx].type) # "none"
               => ScheduledAt(visited[k].blk, visited[k].pos)

(***************************************************************************)
(* Blocks beside the session's requests to the node (SpecConsume): the     *)
(* application asks for the balance while blocks arrive.                   *)
(***************************************************************************)
MaxBalanceCalls == 2

\* What the node may answer: the balance in KAS and the number of UTXOs.
BalanceAnswers ==
  {[balance |-> 0, utxoCount |-> 0], [balance |-> 5, utxoCount |-> 2]}

ConsumeRest ==
  <<prefixString, knownTxIds, prefixFilterEnabled,
    signatureVerificationEnabled, classes, universe, blocks, microtasks,
    emitted, visited, scheduled, workerRuns, logged, escaped, settingCalls,
    sigVars, busVars, decVars, frameVars, outVars, setVars, regVars, feeVars,
    connVars, chainVars, sizeVars, wasmVars>>

\* sdk.getBalance() up to its await: the request goes to the node.
GetBalance ==
  /\ rpcRequests < MaxBalanceCalls
  /\ rpcRequests' = rpcRequests + 1
  /\ balanceAsks' = balanceAsks + 1
  /\ UNCHANGED <<balance, utxoCount, ConsumeRest>>

\* The node answers and getBalance stores balance and utxoCount.
BalanceAnswer(answer) ==
  /\ balanceAsks > 0
  /\ balanceAsks' = balanceAsks - 1
  /\ balance' = answer.balance
  /\ utxoCount' = answer.utxoCount
  /\ UNCHANGED <<rpcRequests, ConsumeRest>>

InitConsume ==
  /\ prefixString = <<84, 69, 83, 84>>
  /\ universe = {1, 6}
  /\ IngestFresh /\ SigIdle /\ BusFresh /\ DecIdle /\ PureIdle

NextConsume ==
  \/ Next
  \/ GetBalance
  \/ \E answer \in BalanceAnswers : BalanceAnswer(answer)

SpecConsume == InitConsume /\ [][NextConsume]_vars

\* A step of processTransactions: a block is handed to it, or a suspended
\* run goes on after its awaited verification.
ProcessStep ==
  \/ blocks' # blocks
  \/ /\ microtasks # <<>>
     /\ Head(microtasks).kind = "resume"
     /\ microtasks' # microtasks

\* C38: processing a block sends no request to the node and changes no
\* session state but the dedup set: balance, utxoCount, the priority fee,
\* the two filter settings, the registry and the listener lists stay as
\* they are.
C38_BlockOnlyConsumes ==
  [][ProcessStep =>
       /\ rpcRequests' = rpcRequests
       /\ UNCHANGED balVars
       /\ priorityFeeSompi' = priorityFeeSompi
       /\ prefixFilterEnabled' = prefixFilterEnabled
       /\ signatureVerificationEnabled' = signatureVerificationEnabled
       /\ classes' = classes
       /\ listeners' = listeners
       /\ prefixString' = prefixString]_vars

\* C38 witness: the node has answered one balance request, another is
\* outstanding, and two blocks were processed: events were emitted and the
\* dedup set has grown, beside the stored balance.
C38_Witness ==
  /\ rpcRequests = 2 /\ balanceAsks = 1
  /\ balance = 5 /\ utxoCount = 2
  /\ Len(blocks) = 2 /\ Len(emitted) >= 2
  /\ knownTxIds.queue # <<>>
  /\ microtasks = <<>>

(***************************************************************************)
(* Signing and verifying one payload (SpecSig).  A payload is built as     *)
(* Kaspeak.createPayload builds it, signed for some outpoint ids, and      *)
(* verified, possibly after some of its fields or the outpoint ids were    *)
(* replaced by other values.                                               *)
(***************************************************************************)
MaxChanged == 2

SigTypes == {1, 256}

SigIds == {PubKeyOf(6), PubKeyOf(7)}

\* Keys a payload may be given after signing: the other peer's key, and the
\* signer's x coordinate with the other parity byte.
SigPublicKeys ==
  {PubKeyOf(6), PubKeyOf(7), <<3>> \o Rep(31, 0) \o <<6>>,
   <<2>> \o Rep(31, 0) \o <<7>>}

\* Outpoint transaction ids 10 and 11 ("aa..a" and "bb..b"), and message
\* bodies: empty, short, and the bytes of "aa..a".
SigOutIds == {TxIdHex(10) \o TxIdHex(11), TxIdHex(11), TxIdHex(10)}

SigData == {<<>>, <<1>>, hexToBytes(TxIdHex(10))}

SigFields == {"publicKey", "prefix", "type", "id", "data"}

SigValues(f) ==
  CASE f = "publicKey" -> SigPublicKeys
    [] f = "prefix" -> {PrefixBytes(x) : x \in SessionPrefixes}
    [] f = "type" -> SigTypes
    [] f = "id" -> SigIds
    [] f = "data" -> SigData

ChangedFields == {f \in SigFields : curPl[f] # signedPl[f]}

NumChanged ==
  Cardinality(ChangedFields) + (IF curOut # signedOut THEN 1 ELSE 0)

\* new Payload(prefixBytes, messageType, identifier, publicKey, data) as in
\* Kaspeak.createPayload, for the session of private key priv.
InitSig ==
  /\ prefixString = <<84, 69, 83, 84>>
  /\ universe = {1}
  /\ IngestFresh
  /\ sigOracle = <<>>
  /\ \E pre \in SessionPrefixes, t \in SigTypes, id \in SigIds,
        priv \in PrivKeys, d \in SigData :
        signedPl = PayloadNew(PrefixBytes(pre), t, id, PubKeyOf(priv), d)
  /\ curPl = signedPl
  /\ signedOut = <<>> /\ curOut = <<>>
  /\ verdict = "none" /\ sigPhase = "built"
  /\ BusFresh
  /\ DecIdle
  /\ PureIdle

\* payload.sign(outpointIds, privateKey)
SignPayload(outIds, priv) ==
  /\ sigPhase = "built"
  /\ PubKeyOf(priv) = curPl.publicKey
  /\ LET r == sign(sigOracle, curPl, outIds, priv)
     IN  /\ sigOracle' = r.oracle
         /\ signedPl' = r.p
         /\ curPl' = r.p
  /\ signedOut' = outIds /\ curOut' = outIds
  /\ sigPhase' = "signed"
  /\ verdict' = "none"
  /\ UNCHANGED <<pureVars, ingestVars, busVars, decVars>>

\* A field of the payload is given another value.
SetField(f, value) ==
  /\ sigPhase = "signed"
  /\ curPl' = [curPl EXCEPT ![f] = value]
  /\ curPl' # curPl
  /\ verdict' = "none"
  /\ Cardinality({g \in SigFields : curPl'[g] # signedPl[g]})
       + (IF curOut # signedOut THEN 1 ELSE 0) <= MaxChanged
  /\ UNCHANGED <<pureVars, sigOracle, signedPl, signedOut, curOut, sigPhase, ingestVars,
                 busVars, decVars>>

\* The payload travels in a transaction with other inputs.
SetOutpointIds(outIds) ==
  /\ sigPhase = "signed"
  /\ curOut' = outIds
  /\ curOut' # curOut
  /\ verdict' = "none"
  /\ Cardinality(ChangedFields) + (IF outIds # signedOut THEN 1 ELSE 0)
       <= MaxChanged
  /\ UNCHANGED <<pureVars, sigOracle, signedPl, signedOut, curPl, sigPhase, ingestVars,
                 busVars, decVars>>

\* payload.verify(outpointIds)
VerifyPayload ==
  /\ verdict = "none"
  /\ verdict' = IF verify(sigOracle, curPl, curOut) THEN "true" ELSE "false"
  /\ UNCHANGED <<pureVars, sigOracle, signedPl, signedOut, curPl, curOut, sigPhase,
                 ingestVars, busVars, decVars>>

NextSig ==
  \/ \E outIds \in SigOutIds, priv \in PrivKeys : SignPayload(outIds, priv)
  \/ \E f \in SigFields : \E value \in SigValues(f) : SetField(f, value)
  \/ \E outIds \in SigOutIds : SetOutpointIds(outIds)
  \/ VerifyPayload

SpecSig == InitSig /\ [][NextSig]_vars

\* C9: verify is true for the payload as signed with its own outpoint ids,
\* and false once exactly one of publicKey, prefix, type, id, data or the
\* outpointIds argument differs from what was signed.
C9_SignThenVerifySound ==
  (sigPhase = "signed" /\ verdict # "none") =>
    /\ NumChanged = 0 => verdict = "true"
    /\ NumChanged = 1 => verdict = "false"

\* C9 witness: only the data of a signed payload was changed and verify
\* returned false.
C9_Witness ==
  /\ sigPhase = "signed" /\ verdict = "false"
  /\ ChangedFields = {"data"} /\ curOut = signedOut

\* C10 as stated: with prefix, type, id and publicKey fixed, a different
\* pair (data, outpointIds) has a different signed preimage, and a
\* signature never verifies for different data in a transaction with
\* different outpoint ids.
C10_SignatureTiesDataToTransaction ==
  (/\ sigPhase = "signed"
   /\ ChangedFields = {"data"}
   /\ curOut # signedOut)
  => /\ buildMessage(curPl, curOut) # buildMessage(signedPl, signedOut)
     /\ verdict # "true"

(***************************************************************************)
(* sdk/event-bus.ts (SpecBus): one event name.  A registered function is   *)
(* [fn, wrap]: the application's listener fn and, for a function created   *)
(* by once(), the number of that onceWrapper closure (0 for fn itself).    *)
(* Listener "g" throws whenever it is called.                              *)
(***************************************************************************)
MaxRegistrations == 2

MaxEmits == 2

MaxOffs == 1

BusFns == {"f", "g"}

\* on(event, listener)
on(arr, listener) == Append(arr, listener)

\* off(event, listener): every occurrence of that function is removed.
off(arr, listener) == SelectSeq(arr, LAMBDA fn : fn # listener)

\* A faulty variant of emit that queues a function once however many times
\* it is registered.
emitOncePerFunction(arr, data) ==
  LET first == SelectSeq([k \in 1..Len(arr) |-> [k |-> k, fn |-> arr[k]]],
                         LAMBDA e : \A j \in 1..(e.k - 1) : arr[j] # e.fn)
  IN  [k \in 1..Len(first) |-> [fn |-> first[k].fn, data |-> data]]

\* emit(event, data): one microtask per function of the cloned array.
emit(arr, data) == [k \in 1..Len(arr) |-> [fn |-> arr[k], data |-> data]]

\* Listener "g" throws whenever it is called.
listenerThrows(fn) == fn = "g"

\* A faulty variant of the microtask body without try/catch: the exception
\* of a listener leaves the microtask.
runUncaught(fn) ==
  IF listenerThrows(fn.fn) THEN [logged |-> 0, escaped |-> TRUE]
  ELSE [logged |-> 0, escaped |-> FALSE]

\* The body of the microtask queued by emit: try { fn(data) } catch (e) {
\* logger.error(...) }.  What is logged, and whether an exception leaves
\* the microtask.
runCaught(fn) ==
  IF listenerThrows(fn.fn) THEN [logged |-> 1, escaped |-> FALSE]
  ELSE [logged |-> 0, escaped |-> FALSE]

On(f) ==
  /\ Len(listeners) < MaxRegistrations
  /\ listeners' = on(listeners, [fn |-> f, wrap |-> 0])
  /\ UNCHANGED <<pureVars, wrappers, busTasks, calls, busLogged, emits,
                 captured, offs, busEscaped, ingestVars, sigVars, decVars>>

\* once(event, listener): a new onceWrapper is registered.
Once(f) ==
  /\ wrappers < MaxRegistrations
  /\ wrappers' = wrappers + 1
  /\ listeners' = on(listeners, [fn |-> f, wrap |-> wrappers + 1])
  /\ UNCHANGED <<pureVars, busTasks, calls, busLogged, emits, captured, offs,
                 busEscaped, ingestVars, sigVars, decVars>>

\* off(event, listener) with a function the application holds.
Off(f) ==
  /\ Cardinality(offs) < MaxOffs
  /\ \E k \in 1..Len(listeners) : listeners[k].fn = f
  /\ listeners' = off(listeners, [fn |-> f, wrap |-> 0])
  /\ offs' = offs \cup {[fn |-> f, wrappers |-> wrappers, emits |-> emits,
                          calls |-> Len(calls)]}
  /\ UNCHANGED <<pureVars, wrappers, busTasks, calls, busLogged, emits,
                 captured, busEscaped, ingestVars, sigVars, decVars>>

Emit ==
  /\ emits < MaxEmits
  /\ emits' = emits + 1
  /\ busTasks' = busTasks \o emit(listeners, emits + 1)
  /\ captured' = Append(captured, listeners)
  /\ UNCHANGED <<pureVars, listeners, wrappers, calls, busLogged, offs,
                 busEscaped, ingestVars, sigVars, decVars>>

\* The microtask at the head runs fn(data) inside try/catch; a onceWrapper
\* first removes itself, then calls its listener.  An exception that left
\* a microtask would end the process and with it the queued microtasks.
RunListener ==
  /\ busTasks # <<>>
  /\ LET task == Head(busTasks)
         out == runCaught(task.fn)
     IN  /\ listeners' = IF task.fn.wrap > 0 THEN off(listeners, task.fn)
                                              ELSE listeners
         /\ calls' = Append(calls, [fn |-> task.fn.fn, wrap |-> task.fn.wrap,
                                    data |-> task.data])
         /\ busLogged' = busLogged + out.logged
         /\ busEscaped' = (busEscaped \/ out.escaped)
         /\ busTasks' = IF out.escaped THEN <<>> ELSE Tail(busTasks)
  /\ UNCHANGED <<pureVars, wrappers, emits, captured, offs, ingestVars,
                 sigVars, decVars>>

InitBus ==
  /\ prefixString = <<84, 69, 83, 84>>
  /\ universe = {1}
  /\ IngestFresh
  /\ SigIdle
  /\ BusFresh
  /\ DecIdle
  /\ PureIdle

NextBus ==
  \/ \E f \in BusFns : On(f)
  \/ \E f \in BusFns : Once(f)
  \/ \E f \in BusFns : Off(f)
  \/ Emit
  \/ RunListener

SpecBus == InitBus /\ [][NextBus]_vars

\* C7 as stated: the listener of one once(e, f) registration is invoked at
\* most once, whatever emit(e) calls are made.
C7_OnceListenerInvokedAtMostOnce ==
  \A w \in 1..wrappers :
    Cardinality({k \in 1..Len(calls) : calls[k].wrap = w}) <= 1

(***************************************************************************)
(* sdk/message-serializer.ts (SpecDecode).  Bytes are terms that say how   *)
(* they were made: cborEncode of a plain object, compressZstd of bytes,    *)
(* nonce + XChaCha20-Poly1305 seal of bytes under a key, the empty array,  *)
(* or bytes nobody encoded ("junk", shorter or not than the 24-byte        *)
(* nonce).  The libraries undo exactly what they did and reject the rest;  *)
(* what they throw are Error objects.                                      *)
(***************************************************************************)
Cbor(obj) == [t |-> "cbor", obj |-> obj]

Zstd(x) == [t |-> "zstd", v |-> x]

Sealed(key, x) == [t |-> "box", key |-> key, v |-> x]

Junk(len) == [t |-> "junk", len |-> len]

Empty == [t |-> "empty"]

\* Keys: two 32-byte keys, a key of another length, and no key.
GoodKeys == {"k1", "k2"}

Keys == GoodKeys \cup {"short", "none"}

\* Plain objects: one the classes accept and one their fromPlainObject
\* rejects by throwing.
PlainObjects == {"okObj", "badObj"}

\* A faulty variant of aeadOpen that opens a sealed box with any key of the
\* right length.
aeadOpenAnyKey(key, data) ==
  IF key = "short" THEN [out |-> "throw"]
  ELSE IF data.t = "empty" \/ (data.t = "junk" /\ data.len = "short")
    THEN [out |-> "throw"]
  ELSE IF data.t = "box" THEN [out |-> "ok", v |-> data.v]
  ELSE [out |-> "null"]

\* new XChaCha20Poly1305(key).open(nonce, ciphertext): throws for a key or a
\* nonce of the wrong length, null when the tag does not authenticate.
aeadOpen(key, data) ==
  IF key = "short" THEN [out |-> "throw"]
  ELSE IF data.t = "empty" \/ (data.t = "junk" /\ data.len = "short")
    THEN [out |-> "throw"]
  ELSE IF data.t = "box" /\ data.key = key THEN [out |-> "ok", v |-> data.v]
  ELSE [out |-> "null"]

decompressZstd(x) ==
  IF x.t = "zstd" THEN [out |-> "ok", v |-> x.v] ELSE [out |-> "throw"]

cborDecode(x) ==
  IF x.t = "cbor" THEN [out |-> "ok", obj |-> x.obj] ELSE [out |-> "throw"]

fromPlainObjectThrows(cls, obj) == obj = "badObj"

UnknownMessage(data, code) ==
  [kind |-> "unknown", code |-> code, rawData |-> data]

\* Phases 2-4 of decode, from the plaintext on.
decodePlain(cls, type, data, plaintext) ==
  LET decompressed == decompressZstd(plaintext)
  IN  IF decompressed.out = "throw" THEN UnknownMessage(data, 3)
      ELSE
        LET obj == cborDecode(decompressed.v)
        IN  IF obj.out = "throw" THEN UnknownMessage(data, 4)
            ELSE IF fromPlainObjectThrows(cls, obj.obj)
              THEN UnknownMessage(data, 5)
            ELSE [kind |-> "instance", cls |-> cls, type |-> type,
                  obj |-> obj.obj]

\* A faulty variant of decode without the check for an empty plaintext.
decodeKeepsEmpty(reg, type, data, key) ==
  IF ~reg[type].registered THEN [kind |-> "throw", error |-> "not registered"]
  ELSE
    LET cls == reg[type].cls
    IN  IF RequiresEncryption(cls) /\ key = "none"
          THEN [kind |-> "throw", error |-> "key required"]
        ELSE IF RequiresEncryption(cls)
          THEN
            LET maybePlain == aeadOpen(key, data)
            IN  IF maybePlain.out = "throw" THEN UnknownMessage(data, 2)
                ELSE IF maybePlain.out = "null" THEN UnknownMessage(data, 0)
                ELSE decodePlain(cls, type, data, maybePlain.v)
        ELSE decodePlain(cls, type, data, data)

\* A faulty variant of decode that reads the data as unencrypted when the
\* key is missing.
decodeKeyOptional(reg, type, data, key) ==
  IF ~reg[type].registered THEN [kind |-> "throw", error |-> "not registered"]
  ELSE
    LET cls == reg[type].cls
    IN  IF RequiresEncryption(cls) /\ key # "none"
          THEN
            LET maybePlain == aeadOpen(key, data)
            IN  IF maybePlain.out = "throw" THEN UnknownMessage(data, 2)
                ELSE IF maybePlain.out = "null" THEN UnknownMessage(data, 0)
                ELSE IF maybePlain.v.t = "empty" THEN UnknownMessage(data, 1)
                ELSE decodePlain(cls, type, data, maybePlain.v)
        ELSE decodePlain(cls, type, data, data)

\* MessageSerializer.decode(messageRegistry, header, data, key)
decode(reg, type, data, key) ==
  IF ~reg[type].registered THEN [kind |-> "throw", error |-> "not registered"]
  ELSE
    LET cls == reg[type].cls
    IN  IF RequiresEncryption(cls) /\ key = "none"
          THEN [kind |-> "throw", error |-> "key required"]
        ELSE IF RequiresEncryption(cls)
          THEN
            LET maybePlain == aeadOpen(key, data)
            IN  IF maybePlain.out = "throw" THEN UnknownMessage(data, 2)
                ELSE IF maybePlain.out = "null" THEN UnknownMessage(data, 0)
                ELSE IF maybePlain.v.t = "empty" THEN UnknownMessage(data, 1)
                ELSE decodePlain(cls, type, data, maybePlain.v)
        ELSE decodePlain(cls, type, data, data)

\* A faulty variant of encode that leaves out the compression.
encodeUncompressed(cls, obj, key) ==
  IF RequiresEncryption(cls) /\ key = "none"
    THEN [out |-> "throw"]
  ELSE IF RequiresEncryption(cls) /\ key = "short"
    THEN [out |-> "throw"]
  ELSE IF RequiresEncryption(cls)
    THEN [out |-> "ok", v |-> Sealed(key, Cbor(obj))]
  ELSE [out |-> "ok", v |-> Cbor(obj)]

\* MessageSerializer.encode(message, key) for a message of class cls whose
\* toPlainObject gives obj.
\* A faulty variant of encode that seals whenever it is given a usable key,
\* whatever the class says.
encodeSealsWithKey(cls, obj, key) ==
  IF RequiresEncryption(cls) /\ key \in {"none", "short"}
    THEN [out |-> "throw"]
  ELSE IF key \notin {"none", "short"}
    THEN [out |-> "ok", v |-> Sealed(key, Zstd(Cbor(obj)))]
  ELSE [out |-> "ok", v |-> Zstd(Cbor(obj))]

encode(cls, obj, key) ==
  IF RequiresEncryption(cls) /\ key = "none"
    THEN [out |-> "throw"]
  ELSE IF RequiresEncryption(cls) /\ key = "short"
    THEN [out |-> "throw"]
  ELSE IF RequiresEncryption(cls)
    THEN [out |-> "ok", v |-> Sealed(key, Zstd(Cbor(obj)))]
  ELSE [out |-> "ok", v |-> Zstd(Cbor(obj))]

\* Data bytes a transaction may carry: anything at all.
WireLeaves ==
  {Junk("short"), Junk("long"), Empty} \cup {Cbor(o) : o \in PlainObjects}

WirePlain == WireLeaves \cup {Zstd(x) : x \in WireLeaves}

WireData == WirePlain \cup {Sealed(k, x) : k \in GoodKeys, x \in WirePlain}

\* A peer encodes a message of a registered class: the bytes returned go
\* on the wire; when encode throws there are no bytes and nothing is sent.
EncodeMessage(type, obj, key) ==
  /\ classes[type].registered
  /\ LET r == encode(classes[type].cls, obj, key)
     IN  /\ wire' = IF r.out = "ok" THEN r.v ELSE wire
         /\ wireType' = IF r.out = "ok" THEN type ELSE wireType
         /\ decoded' = IF r.out = "ok"
                         THEN [key |-> "none", result |-> [kind |-> "none"]]
                         ELSE decoded
         /\ encoded' = [made |-> r.out = "ok", threw |-> r.out = "throw",
                        cls |-> classes[type].cls, obj |-> obj, key |-> key]
  /\ UNCHANGED <<pureVars, ingestVars, sigVars, busVars>>

\* A message-received event brings a header and data bytes.
ReceiveData(type, data) ==
  /\ wire' = data
  /\ wireType' = type
  /\ decoded' = [key |-> "none", result |-> [kind |-> "none"]]
  /\ encoded' = [made |-> FALSE, threw |-> FALSE, cls |-> "none",
                 obj |-> "none", key |-> "none"]
  /\ UNCHANGED <<pureVars, ingestVars, sigVars, busVars>>

\* Kaspeak.decode(header, data, key)
DecodeData(key) ==
  /\ decoded.result.kind = "none"
  /\ decoded' = [key |-> key, result |-> decode(classes, wireType, wire, key)]
  /\ UNCHANGED <<pureVars, wire, wireType, encoded, ingestVars, sigVars,
                 busVars>>

InitDecode ==
  /\ prefixString = <<84, 69, 83, 84>>
  /\ universe = {1}
  /\ IngestFresh
  /\ SigIdle
  /\ BusFresh
  /\ DecIdle
  /\ PureIdle

NextDecode ==
  \/ \E type \in TypeCodes, obj \in PlainObjects, key \in Keys :
       EncodeMessage(type, obj, key)
  \/ \E type \in TypeCodes, data \in WireData : ReceiveData(type, data)
  \/ \E key \in Keys : DecodeData(key)

SpecDecode == InitDecode /\ [][NextDecode]_vars

\* The stage of the pipeline that fails first for these bytes, by what the
\* bytes are: 0, 1, 2 decryption, 3 decompression, 4 CBOR, 5 hydration, and
\* 6 when no stage fails.
FirstFailingStage(cls, data, key) ==
  LET enc == RequiresEncryption(cls)
      tooShort == data.t = "empty" \/ (data.t = "junk" /\ data.len = "short")
      opens == data.t = "box" /\ data.key = key
      plaintext == IF enc THEN data.v ELSE data
  IN  IF enc /\ (key = "short" \/ tooShort) THEN 2
      ELSE IF enc /\ ~opens THEN 0
      ELSE IF enc /\ plaintext.t = "empty" THEN 1
      ELSE IF plaintext.t # "zstd" THEN 3
      ELSE IF plaintext.v.t # "cbor" THEN 4
      ELSE IF plaintext.v.obj = "badObj" THEN 5
      ELSE 6

\* C8: for a registered type, with the key given when the class requires
\* encryption, decode does not throw; it returns the hydrated instance
\* exactly when no stage fails, and otherwise an UnknownMessage with the
\* raw data and the code of the first failing stage.
C8_DecodeNeverThrowsAndCodesStage ==
  LET r == decoded.result
      e == classes[wireType]
  IN  (/\ r.kind # "none"
       /\ e.registered
       /\ RequiresEncryption(e.cls) => decoded.key # "none")
      => /\ r.kind # "throw"
         /\ r.kind = "instance"
              <=> FirstFailingStage(e.cls, wire, decoded.key) = 6
         /\ r.kind = "unknown" =>
              /\ r.code = FirstFailingStage(e.cls, wire, decoded.key)
              /\ r.rawData = wire

\* C8 witness: an encrypted class was given bytes that authenticate under
\* the key and decrypt to nothing, and decode returned code 1.
C8_Witness ==
  /\ RequiresEncryption(classes[wireType].cls)
  /\ decoded.key \in GoodKeys
  /\ wire.t = "box" /\ wire.key = decoded.key /\ wire.v.t = "empty"
  /\ decoded.result.kind = "unknown" /\ decoded.result.code = 1

(***************************************************************************)
(* The payload frame as a function (SpecFrame): a payload is built, turned *)
(* into bytes by toBytes, the bytes are possibly changed in transit, and   *)
(* Payload.fromBytes parses them; buildMessage gives the signed string.    *)
(***************************************************************************)
MaxEdits == 1

FrameTypes == {0, 1, 256, 257, 65535}

\* A compressed point, and 33 bytes that start with 0x05.
FrameIds == {PubKeyOf(6), <<5>> \o Rep(32, 9)}

FramePublicKeys == {PubKeyOf(7), <<4>> \o Rep(32, 9)}

FrameData == {<<>>, <<1>>, Rep(300, 7)}

\* Offsets of the first byte of marker, version, id, publicKey and of the
\* two bytes of dataLen, and the values written there.
FrameOffsets == {0, 4, 11, 44, 141, 142}

FrameByteValues == {0, 1, 2, 5}

InitFrame ==
  /\ prefixString = <<84, 69, 83, 84>>
  /\ universe = {1}
  /\ IngestFresh /\ SigIdle /\ BusFresh /\ DecIdle /\ OutIdle /\ SetIdle
  /\ SessIdle
  /\ \E px \in SessionPrefixes, t \in FrameTypes, id \in FrameIds,
        pk \in FramePublicKeys, d \in FrameData :
        framePl = PayloadNew(PrefixBytes(px), t, id, pk, d)
  /\ frameBuf = toBytes(framePl)
  /\ frameEdits = 0
  /\ frameParsed = [done |-> FALSE, r |-> [ok |-> FALSE, err |-> "none"]]
  /\ framePre = [called |-> FALSE, outIds |-> <<>>, msg |-> <<>>]

FrameRest ==
  <<ingestVars, sigVars, busVars, decVars, outVars, setVars, sessVars>>

\* One byte of the frame is overwritten.
SetByte(at, val) ==
  /\ frameEdits < MaxEdits /\ ~frameParsed.done /\ ~framePre.called
  /\ at < Len(frameBuf)
  /\ frameBuf[at + 1] # val
  /\ frameBuf' = [frameBuf EXCEPT ![at + 1] = val]
  /\ frameEdits' = frameEdits + 1
  /\ UNCHANGED <<framePl, frameParsed, framePre, FrameRest>>

\* The frame loses its last byte.
DropLastByte ==
  /\ frameEdits < MaxEdits /\ ~frameParsed.done /\ ~framePre.called
  /\ frameBuf' = SubSeq(frameBuf, 1, Len(frameBuf) - 1)
  /\ frameEdits' = frameEdits + 1
  /\ UNCHANGED <<framePl, frameParsed, framePre, FrameRest>>

\* A byte follows the frame.
AppendByte(val) ==
  /\ frameEdits < MaxEdits /\ ~frameParsed.done /\ ~framePre.called
  /\ frameBuf' = Append(frameBuf, val)
  /\ frameEdits' = frameEdits + 1
  /\ UNCHANGED <<framePl, frameParsed, framePre, FrameRest>>

\* Payload.fromBytes(frameBuf)
ParseFrame ==
  /\ ~frameParsed.done /\ ~framePre.called
  /\ frameParsed' = [done |-> TRUE, r |-> fromBytes(frameBuf)]
  /\ UNCHANGED <<framePl, frameBuf, frameEdits, framePre, FrameRest>>

\* buildMessage(outIds) of the payload, as sign and verify call it.
BuildPreimage(outIds) ==
  /\ ~frameParsed.done /\ ~framePre.called /\ frameEdits = 0
  /\ framePre' = [called |-> TRUE, outIds |-> outIds,
                  msg |-> buildMessage(framePl, outIds)]
  /\ UNCHANGED <<framePl, frameBuf, frameEdits, frameParsed, FrameRest>>

NextFrame ==
  \/ \E at \in FrameOffsets, val \in FrameByteValues : SetByte(at, val)
  \/ DropLastByte
  \/ \E val \in FrameByteValues : AppendByte(val)
  \/ ParseFrame
  \/ \E outIds \in SigOutIds \cup {<<>>} : BuildPreimage(outIds)

SpecFrame == InitFrame /\ [][NextFrame]_vars

\* The bytes of toBytes(p) with the signature and dataLen fields removed.
FrameWithoutSignatureAndLength(p) ==
  Subarray(toBytes(p), 0, 77) \o Subarray(toBytes(p), 143, Len(toBytes(p)))

\* The same bytes with the two bytes of the type exchanged.
FrameWithTypeBigEndian(p) ==
  Subarray(toBytes(p), 0, 9) \o <<p.type \div 256, p.type % 256>>
    \o Subarray(toBytes(p), 11, 77)
    \o Subarray(toBytes(p), 143, Len(toBytes(p)))

\* C11 (as stated): the signed string is the hex of marker, version, prefix,
\* type as two bytes little-endian, id, publicKey and data, that is the hex
\* of toBytes without the signature and dataLen fields, followed by the
\* outpoint ids.
C11_PreimageIsFrameHex ==
  framePre.called =>
    framePre.msg
      = bytesToHex(FrameWithoutSignatureAndLength(framePl)) \o framePre.outIds

\* C11 (amended): the signed string is the hex of marker, version, prefix,
\* type as two bytes big-endian, id, publicKey and data, followed by the
\* outpoint ids; it is the hex of toBytes without the signature and dataLen
\* fields exactly when the two bytes of the type are equal.
C11_PreimageHasTypeBigEndian ==
  framePre.called =>
    /\ framePre.msg
         = bytesToHex(FrameWithTypeBigEndian(framePl)) \o framePre.outIds
    /\ (framePre.msg
          = bytesToHex(FrameWithoutSignatureAndLength(framePl))
              \o framePre.outIds)
         <=> (framePl.type \div 256 = framePl.type % 256)

C11_Witness ==
  /\ framePre.called /\ framePl.type = 256
  /\ framePl.data # <<>> /\ framePre.outIds # <<>>

\* C12: parsing the bytes of a payload gives back every field of it, the
\* all-zero signature of a fresh payload included, and the frame is 143
\* bytes longer than the data.
C12_FrameRoundTrip ==
  (frameParsed.done /\ frameEdits = 0) =>
    /\ frameParsed.r.ok
    /\ frameParsed.r.p = framePl
    /\ frameParsed.r.p.signature = Rep(64, 0)
    /\ Len(frameBuf) = HEADER_SIZE + Len(framePl.data)

C12_Witness ==
  /\ frameParsed.done /\ frameEdits = 0 /\ frameParsed.r.ok
  /\ Len(framePl.data) = 300 /\ framePl.type = 256

FrameHeaderAccepted ==
  /\ Len(frameBuf) >= HEADER_SIZE
  /\ Subarray(frameBuf, 0, 4) = MARKER
  /\ frameBuf[5] = PROTOCOL_VERSION

FrameDataLen == readU16(frameBuf, 141)

FramePointPrefixes == {2, 3}

MaxInputs == 3

MaxOutCalls == 2

OutTxIds == {TxIdHex(1), TxIdHex(2), TxIdHex(3)}

OutIndices == 0..2

OutInputs == [transactionId : OutTxIds, index : OutIndices]

OutInputLists ==
  UNION {[1..n -> OutInputs] : n \in 0..MaxInputs}

InitOut ==
  /\ prefixString = <<84, 69, 83, 84>>
  /\ universe = {1}
  /\ IngestFresh /\ SigIdle /\ BusFresh /\ DecIdle /\ FrameIdle /\ SetIdle
  /\ SessIdle
  /\ txIn \in OutInputLists
  /\ txInAfter = <<>>
  /\ outIdsOf = <<>>

OutRest ==
  <<ingestVars, sigVars, busVars, decVars, frameVars, setVars, sessVars>>

\* getOutpointIds(tx): the result, and tx.inputs as the call leaves it.
GetOutpointIds ==
  /\ Len(outIdsOf) < MaxOutCalls
  /\ outIdsOf' = Append(outIdsOf,
                        [of |-> txIn,
                         ids |-> getOutpointIds([inputs |-> txIn])])
  /\ txInAfter' = inputsAfterGetOutpointIds(txIn)
  /\ txIn' = inputsAfterGetOutpointIds(txIn)
  /\ UNCHANGED OutRest

\* The same inputs listed with two neighbours of different index exchanged.
ReorderInputs(i) ==
  /\ Len(outIdsOf) \in 1..(MaxOutCalls - 1)
  /\ i \in 1..(Len(txIn) - 1)
  /\ txIn[i].index # txIn[i + 1].index
  /\ txIn' = [txIn EXCEPT ![i] = txIn[i + 1], ![i + 1] = txIn[i]]
  /\ UNCHANGED <<txInAfter, outIdsOf, OutRest>>

NextOut ==
  \/ GetOutpointIds
  \/ \E i \in 1..(MaxInputs - 1) : ReorderInputs(i)

SpecOut == InitOut /\ [][NextOut]_vars

\* The place of input i in the order by ascending index, inputs of equal
\* index in the order they are listed.
OutRank(inputs, i) ==
  1 + Cardinality({j \in 1..Len(inputs) :
                     \/ inputs[j].index < inputs[i].index
                     \/ inputs[j].index = inputs[i].index /\ j < i})

OutExpectedIds(inputs) ==
  Flatten([k \in 1..Len(inputs) |->
             inputs[CHOOSE i \in 1..Len(inputs) :
                      OutRank(inputs, i) = k].transactionId])

OutListedIds(inputs) ==
  Flatten([k \in 1..Len(inputs) |-> inputs[k].transactionId])

\* Two lists of the same inputs that agree on the order of the inputs of
\* each index.
OutSameUpToIndexOrder(a, b) ==
  \A v \in OutIndices :
    SelectSeq(a, LAMBDA x : x.index = v) = SelectSeq(b, LAMBDA x : x.index = v)

OutIndicesAscend(inputs) ==
  \A i \in 1..(Len(inputs) - 1) : inputs[i].index <= inputs[i + 1].index

OutIdsDistinct(inputs) ==
  \A i, j \in 1..Len(inputs) :
    i # j => inputs[i].transactionId # inputs[j].transactionId

\* C15: getOutpointIds concatenates the transaction ids of the inputs by
\* ascending index, inputs of equal index in the order listed; two lists
\* that differ only in the places of inputs of different index give the
\* same string; the string is the listed order's when the indices ascend
\* and, for distinct ids, another one when they do not; tx.inputs is left
\* as it was.
C15_OutpointIdsByIndexStable ==
  /\ \A c \in 1..Len(outIdsOf) :
       /\ outIdsOf[c].ids = OutExpectedIds(outIdsOf[c].of)
       /\ OutIndicesAscend(outIdsOf[c].of)
            => outIdsOf[c].ids = OutListedIds(outIdsOf[c].of)
       /\ (~OutIndicesAscend(outIdsOf[c].of) /\ OutIdsDistinct(outIdsOf[c].of))
            => outIdsOf[c].ids # OutListedIds(outIdsOf[c].of)
  /\ \A c, d \in 1..Len(outIdsOf) :
       OutSameUpToIndexOrder(outIdsOf[c].of, outIdsOf[d].of)
         => outIdsOf[c].ids = outIdsOf[d].ids
  /\ outIdsOf # <<>> => txInAfter = outIdsOf[Len(outIdsOf)].of

\* Two calls on different listings of three inputs, two of them of equal
\* index and out of index order.
C15_Witness ==
  /\ Len(outIdsOf) = 2
  /\ outIdsOf[1].of # outIdsOf[2].of
  /\ Len(outIdsOf[1].of) = 3
  /\ ~OutIndicesAscend(outIdsOf[1].of)
  /\ \E i, j \in 1..3 :
       /\ i < j /\ outIdsOf[1].of[i].index = outIdsOf[1].of[j].index
       /\ outIdsOf[1].of[i].transactionId # outIdsOf[1].of[j].transactionId
  /\ txInAfter = outIdsOf[2].of

(***************************************************************************)
(* LimitedHashSet as a function (SpecSet): a set of some capacity is       *)
(* constructed and values are added to it one after another.               *)
(***************************************************************************)
MaxCapacity == 3

MaxAdds == 5

SetValues == 1..MaxAdds

InitSet ==
  /\ prefixString = <<84, 69, 83, 84>>
  /\ universe = {1}
  /\ IngestFresh /\ SigIdle /\ BusFresh /\ DecIdle /\ FrameIdle /\ OutIdle
  /\ SessIdle
  /\ hsCap \in 1..MaxCapacity
  /\ hs = EmptyHashSet
  /\ hsAdded = <<>>
  /\ hsLast = NoSetCall

\* set.tryAdd(value)
TryAdd(value) ==
  /\ Len(hsAdded) < MaxAdds
  /\ hs' = tryAddWith(hsCap, hs, value).s
  /\ hsAdded' = Append(hsAdded, value)
  /\ hsLast' = [op |-> "tryAdd", value |-> value, before |-> hs,
                ret |-> tryAddWith(hsCap, hs, value).ret]
  /\ UNCHANGED <<hsCap, ingestVars, sigVars, busVars, decVars, frameVars,
                 outVars, sessVars>>

NextSet == \E value \in SetValues : TryAdd(value)

SpecSet == InitSet /\ [][NextSet]_vars

SetAddedDistinct ==
  \A i, j \in 1..Len(hsAdded) : i # j => hsAdded[i] # hsAdded[j]

\* C16: after more distinct values than its capacity c were added to an
\* empty set, the set holds exactly the last c of them, in the order they
\* were added, and has is false for every earlier one.
C16_KeepsLastCapacityValues ==
  (SetAddedDistinct /\ Len(hsAdded) > hsCap) =>
    /\ hs.queue = SubSeq(hsAdded, Len(hsAdded) - hsCap + 1, Len(hsAdded))
    /\ hs.set = {hsAdded[i] : i \in (Len(hsAdded) - hsCap + 1)..Len(hsAdded)}
    /\ \A i \in 1..(Len(hsAdded) - hsCap) : ~has(hs, hsAdded[i])
    /\ \A i \in (Len(hsAdded) - hsCap + 1)..Len(hsAdded) :
         has(hs, hsAdded[i])

C16_Witness ==
  /\ SetAddedDistinct /\ hsCap = 3 /\ Len(hsAdded) = 5
  /\ ~has(hs, hsAdded[2]) /\ has(hs, hsAdded[3])

\* The values of the queue, and what a call removed from the set.
QueueValues(q) == {q[i] : i \in 1..Len(q)}

EvictedByLast == hsLast.before.set \ hs.set

\* C35: tryAdd(v) returns false exactly when v is in the set, and then the
\* set, its size and its eviction order are what they were; otherwise it
\* returns true, v is a member afterwards and the newest of the queue, and
\* at most one element, the oldest, is evicted, and only from a full set.
C35_TryAddFrame ==
  hsLast.op = "tryAdd" =>
    /\ ~hsLast.ret <=> has(hsLast.before, hsLast.value)
    /\ ~hsLast.ret =>
         /\ hs = hsLast.before
         /\ size(hs) = size(hsLast.before)
    /\ hsLast.ret =>
         /\ has(hs, hsLast.value)
         /\ hs.queue[Len(hs.queue)] = hsLast.value
         /\ Cardinality(EvictedByLast) <= 1
         /\ EvictedByLast # {} =>
              /\ size(hsLast.before) = hsCap
              /\ EvictedByLast = {Head(hsLast.before.queue)}
         /\ size(hsLast.before) < hsCap => EvictedByLast = {}
         /\ hs.set = (hsLast.before.set \ EvictedByLast) \cup {hsLast.value}
         /\ hs.queue
              = Append(SelectSeq(hsLast.before.queue,
                                 LAMBDA x : x \notin EvictedByLast),
                       hsLast.value)

\* C35 witness: the oldest value of a full set was added again, tryAdd
\* returned false, and it is still the oldest; before that an add to the
\* full set had evicted a value.
C35_Witness ==
  /\ hsLast.op = "tryAdd" /\ ~hsLast.ret
  /\ hsCap = 2 /\ size(hs) = 2
  /\ Head(hs.queue) = hsLast.value
  /\ Len(hsAdded) = 4
  /\ ~has(hs, hsAdded[1])

(***************************************************************************)
(* LimitedHashSet with clear (SpecClear): tryAdd and clear calls in any    *)
(* order on a set of some capacity.                                        *)
(***************************************************************************)
\* set.clear()
Clear ==
  /\ hs' = clear(hs)
  /\ hsLast' = [op |-> "clear", value |-> 0, before |-> hs, ret |-> FALSE]
  /\ UNCHANGED <<hsCap, hsAdded, ingestVars, sigVars, busVars, decVars,
                 frameVars, outVars, sessVars>>

NextClear ==
  \/ \E value \in SetValues : TryAdd(value)
  \/ Clear

SpecClear == InitSet /\ [][NextClear]_vars

\* C40: after any sequence of tryAdd and clear calls on a set of capacity
\* c, size is at most c, the queue holds no value twice, the queue and the
\* hash set hold the same values, so that has(v) is true exactly for the
\* queued values, and clear leaves both empty.
C40_QueueAndSetAgree ==
  /\ size(hs) <= hsCap
  /\ \A i, j \in 1..Len(hs.queue) : i # j => hs.queue[i] # hs.queue[j]
  /\ hs.set = QueueValues(hs.queue)
  /\ \A v \in SetValues : has(hs, v) <=> v \in QueueValues(hs.queue)
  /\ hsLast.op = "clear" => hs.queue = <<>> /\ hs.set = {} /\ size(hs) = 0

\* C40 witness: a full set that had evicted a value was cleared, and a
\* value it held before is not a member any more.
C40_Witness ==
  /\ hsLast.op = "clear"
  /\ hsCap = 2 /\ size(hsLast.before) = 2
  /\ Len(hsAdded) >= 3
  /\ hs = EmptyHashSet
  /\ ~has(hs, Head(hsLast.before.queue))

\* The functions called with the data of emit n, in the order of the calls.
BusCalledWith(n) ==
  LET of == SelectSeq(calls, LAMBDA c : c.data = n)
  IN  [k \in 1..Len(of) |-> [fn |-> of[k].fn, wrap |-> of[k].wrap]]

BusPending(n) == \E k \in 1..Len(busTasks) : busTasks[k].data = n

\* C17: no exception of a listener leaves its microtask, so none reaches
\* the caller of emit; once the microtasks of an emit have run, every
\* function the emit captured was called with its data, the ones queued
\* behind a throwing listener included, and each throw was logged.
C17_ThrowingListenerStopsNobody ==
  /\ ~busEscaped
  /\ \A n \in 1..emits : ~BusPending(n) => BusCalledWith(n) = captured[n]
  /\ busLogged
       = Cardinality({k \in 1..Len(calls) : listenerThrows(calls[k].fn)})

\* An emit captured the throwing listener before another one, and both
\* were called.
C17_Witness ==
  /\ emits >= 1 /\ ~BusPending(1)
  /\ Len(captured[1]) = 2
  /\ captured[1][1].fn = "g" /\ captured[1][2].fn = "f"
  /\ BusCalledWith(1) = captured[1]
  /\ busLogged = 1

\* C18 (as stated): after off(e, f) with the function f given to
\* once(e, f) before, no emit issued later invokes f through that
\* registration.
C18_OffUnsubscribesOnceListener ==
  \A k \in 1..Len(calls) : \A o \in offs :
    (/\ calls[k].wrap > 0 /\ calls[k].fn = o.fn
     /\ calls[k].wrap <= o.wrappers)
      => calls[k].data <= o.emits

\* The functions still queued for emit n, in order.
BusQueuedFor(n) ==
  LET ts == SelectSeq(busTasks, LAMBDA t : t.data = n)
  IN  [k \in 1..Len(ts) |-> ts[k].fn]

\* C34: emit runs no listener before it returns, and the listeners invoked
\* for one emit are exactly the functions registered when emit was called,
\* once per registration and in registration order, whatever off and on
\* calls are made between the emit and the queued invocations.
C34_EmitInvokesRegisteredAtCall ==
  /\ [](\A n \in 1..emits : BusCalledWith(n) \o BusQueuedFor(n) = captured[n])
  /\ [][emits' # emits =>
         /\ calls' = calls
         /\ captured'[emits'] = listeners
         /\ busTasks' = busTasks \o [k \in 1..Len(listeners) |->
                                       [fn |-> listeners[k], data |-> emits']]]_vars

\* C34 witness: f was registered, emit was called, then f was removed with
\* off and g added with on before any queued invocation ran; the emit
\* invoked f and did not invoke g.
C34_Witness ==
  /\ emits = 1 /\ busTasks = <<>>
  /\ captured[1] = <<[fn |-> "f", wrap |-> 0]>>
  /\ offs = {[fn |-> "f", wrappers |-> 0, emits |-> 1, calls |-> 0]}
  /\ listeners = <<[fn |-> "g", wrap |-> 0]>>
  /\ calls = <<[fn |-> "f", wrap |-> 0, data |-> 1]>>

\* C19: the data bytes encode made of a message m, decoded with the type
\* code of m's class and, for a class that requires encryption, with the
\* key of encode, give an instance of that class with m's plain object;
\* m is a message whose plain object its own class accepts.
C19_PipelineRoundTrip ==
  (/\ encoded.made /\ decoded.result.kind # "none"
   /\ ~fromPlainObjectThrows(encoded.cls, encoded.obj)
   /\ RequiresEncryption(encoded.cls) => decoded.key = encoded.key)
    => /\ decoded.result.kind = "instance"
       /\ decoded.result.cls = encoded.cls
       /\ decoded.result.obj = encoded.obj

\* A message of the class that requires encryption came back.
C19_Witness ==
  /\ encoded.made /\ RequiresEncryption(encoded.cls)
  /\ decoded.key = encoded.key
  /\ decoded.result.kind = "instance"
  /\ decoded.result.obj = encoded.obj

\* C20: the data bytes of an encrypted message decoded with another key of
\* the same length give an UnknownMessage with code 0 or 1, never an
\* instance.
C20_WrongKeyGivesUnknownMessage ==
  (/\ encoded.made /\ RequiresEncryption(encoded.cls)
   /\ decoded.result.kind # "none"
   /\ decoded.key \in GoodKeys /\ decoded.key # encoded.key)
    => /\ decoded.result.kind = "unknown"
       /\ decoded.result.code \in {0, 1}

C20_Witness ==
  /\ encoded.made /\ RequiresEncryption(encoded.cls)
  /\ encoded.key = "k1" /\ decoded.key = "k2"
  /\ decoded.result.kind = "unknown"
  /\ decoded.result.rawData = wire

\* C21: for a class that requires encryption, encode without a key throws
\* and returns no bytes, and decode without a key throws: it returns
\* neither an UnknownMessage nor an instance read from the data.
C21_MissingKeyFailsLoudly ==
  /\ (/\ encoded.made \/ encoded.threw
      /\ RequiresEncryption(encoded.cls) /\ encoded.key = "none")
       => encoded.threw /\ ~encoded.made
  /\ (/\ decoded.result.kind # "none"
      /\ classes[wireType].registered
      /\ RequiresEncryption(classes[wireType].cls)
      /\ decoded.key = "none")
       => /\ decoded.result.kind = "throw"
          /\ decoded.result.error = "key required"

\* Both happened: an encode without key threw, and a decode without key of
\* well-formed unencrypted bytes threw.
C21_Witness ==
  /\ encoded.threw /\ encoded.key = "none" /\ RequiresEncryption(encoded.cls)
  /\ RequiresEncryption(classes[wireType].cls)
  /\ wire = Zstd(Cbor("okObj"))
  /\ decoded.key = "none" /\ decoded.result.kind = "throw"

\* C29: for a class that does not require encryption a supplied key has no
\* effect: encode with a key returns the bytes that encode without a key
\* returns, and decode with a key returns what decode without a key
\* returns, whatever the data.
C29_KeyIgnoredWithoutEncryption ==
  /\ ((encoded.made \/ encoded.threw) /\ ~RequiresEncryption(encoded.cls))
       => /\ encoded.made
          /\ wire = encode(encoded.cls, encoded.obj, "none").v
          /\ wire = Zstd(Cbor(encoded.obj))
  /\ (/\ decoded.result.kind # "none"
      /\ classes[wireType].registered
      /\ ~RequiresEncryption(classes[wireType].cls))
       => decoded.result = decode(classes, wireType, wire, "none")

\* C29 witness: a message of the class without encryption was encoded with
\* a key and decoded with another one, and came back.
C29_Witness ==
  /\ encoded.made /\ ~RequiresEncryption(encoded.cls)
  /\ encoded.key \in GoodKeys
  /\ decoded.key \notin {"none", encoded.key}
  /\ decoded.result.kind = "instance"
  /\ decoded.result.obj = encoded.obj

(***************************************************************************)
(* The session's message registry (SpecRegistry): an application calls     *)
(* registerMessage, then asks the registry through create, getCtor,        *)
(* getWorker and decode, and calls createPayload.                          *)
(***************************************************************************)
MaxRegisterCalls == 3

MaxCreated == 1

\* Type codes: the BaseMessage default, both ends of the range, and the
\* first code above it.
RegCodes == {-1, 0, 65535, 65536}

RegClassNames == {"Plain", "Secret"}

RegWorkers == {"none", "ok"}

\* Message classes: two for each code of the range, one for each other.
RegMessages ==
  {m \in [cls : RegClassNames, messageType : RegCodes] :
     m.messageType \in 0..65535 \/ m.cls = "Plain"}

NoAnswer ==
  [op |-> "none", key |-> 0, out |-> "none", cls |-> "none",
   worker |-> "none"]

EmptyRegistry == [c \in RegCodes |-> NoEntry]

InitRegistry ==
  /\ prefixString = <<84, 69, 83, 84>>
  /\ universe = {1}
  /\ knownTxIds = EmptyHashSet
  /\ prefixFilterEnabled = TRUE
  /\ signatureVerificationEnabled = TRUE
  /\ classes = EmptyRegistry
  /\ blocks = <<>> /\ microtasks = <<>> /\ emitted = <<>> /\ visited = <<>>
  /\ scheduled = <<>> /\ workerRuns = <<>> /\ logged = <<>>
  /\ escaped = FALSE /\ settingCalls = 0 /\ rpcRequests = 0
  /\ SigIdle /\ BusFresh /\ DecIdle /\ PureIdle

RegRest ==
  <<prefixString, knownTxIds, prefixFilterEnabled,
    signatureVerificationEnabled, universe, blocks, microtasks, emitted,
    visited, scheduled, workerRuns, logged, escaped, settingCalls,
    rpcRequests, signedPl, signedOut, curPl, curOut, verdict, sigPhase, busVars, decVars,
    frameVars, outVars, setVars, feeVars, connVars, chainVars, extVars>>

\* sdk.registerMessage(message, worker)
RegisterMessage(message, worker) ==
  /\ Len(regLog) < MaxRegisterCalls
  /\ LET r == registerMessage(classes, message, worker)
     IN  /\ classes' = r.reg
         /\ regLog' = Append(regLog,
                             [messageType |-> message.messageType,
                              cls |-> message.cls, worker |-> worker,
                              out |-> r.out, changed |-> r.reg # classes])
  /\ regAsk' = NoAnswer
  /\ created' = NotCreated
  /\ UNCHANGED <<sigOracle, RegRest>>

\* messageRegistry.create(key)
AskCreate(key) ==
  /\ regAsk' = [op |-> "create", key |-> key, out |-> create(classes, key).out,
                cls |-> create(classes, key).cls, worker |-> "none"]
  /\ created' = NotCreated
  /\ UNCHANGED <<classes, regLog, sigOracle, RegRest>>

\* messageRegistry.getCtor(key)
AskGetCtor(key) ==
  /\ regAsk' = [op |-> "getCtor", key |-> key, out |-> "ok",
                cls |-> getCtor(classes, key), worker |-> "none"]
  /\ created' = NotCreated
  /\ UNCHANGED <<classes, regLog, sigOracle, RegRest>>

\* messageRegistry.getWorker(key)
AskGetWorker(key) ==
  /\ regAsk' = [op |-> "getWorker", key |-> key,
                out |-> IF getWorkerThrows(classes, key) THEN "throw"
                                                         ELSE "ok",
                cls |-> "none",
                worker |-> IF getWorkerThrows(classes, key)
                             THEN "none" ELSE getWorker(classes, key)]
  /\ created' = NotCreated
  /\ UNCHANGED <<classes, regLog, sigOracle, RegRest>>

\* sdk.decode(header, data, key) of well-formed bytes under header.type.
AskDecode(key) ==
  /\ LET r == decode(classes, key, Sealed("k1", Zstd(Cbor("okObj"))), "k1")
     IN  regAsk' = [op |-> "decode", key |-> key,
                    out |-> r.kind,
                    cls |-> IF r.kind = "instance" THEN r.cls ELSE "none",
                    worker |-> "none"]
  /\ created' = NotCreated
  /\ UNCHANGED <<classes, regLog, sigOracle, RegRest>>

\* sdk.createPayload(outpointIds, messageType, identifier, data)
CreatePayload(messageType) ==
  /\ createPayloadThrows(messageType) \/ Len(sigOracle) < MaxCreated
  /\ IF createPayloadThrows(messageType)
       THEN /\ created' = [out |-> "throw", type |-> messageType,
                           prefix |-> prefixString, hex |-> <<>>,
                           signed |-> FALSE]
            /\ UNCHANGED sigOracle
       ELSE LET r == createPayload(sigOracle, prefixString, 6, TxIdHex(10),
                                   messageType, PubKeyOf(7), <<1>>)
            IN  /\ created' = [out |-> "ok", type |-> messageType,
                               prefix |-> prefixString, hex |-> toHex(r.p),
                               signed |-> r.oracle # sigOracle]
                /\ sigOracle' = r.oracle
  /\ regAsk' = NoAnswer
  /\ UNCHANGED <<classes, regLog, RegRest>>

NextRegistry ==
  \/ \E message \in RegMessages, worker \in RegWorkers :
       RegisterMessage(message, worker)
  \/ \E key \in RegCodes : AskCreate(key)
  \/ \E key \in RegCodes : AskGetCtor(key)
  \/ \E key \in RegCodes : AskGetWorker(key)
  \/ \E key \in RegCodes : AskDecode(key)
  \/ \E messageType \in RegCodes : CreatePayload(messageType)

SpecRegistry == InitRegistry /\ [][NextRegistry]_vars

\* The registrations of a code that were accepted among the first n calls.
RegAccepted(key, n) ==
  {i \in 1..n : regLog[i].messageType = key /\ regLog[i].out = "ok"}

RegLatest(key, n) ==
  regLog[CHOOSE i \in RegAccepted(key, n) :
           \A j \in RegAccepted(key, n) : j <= i]

\* C22: create succeeds exactly for the codes registered before, and decode
\* for a header whose code was not registered throws the error of create:
\* it returns neither an instance nor an UnknownMessage.
C22_UnregisteredTypeFailsAtCreate ==
  /\ regAsk.op = "create" =>
       (regAsk.out = "ok" <=> RegAccepted(regAsk.key, Len(regLog)) # {})
  /\ (regAsk.op = "decode" /\ RegAccepted(regAsk.key, Len(regLog)) = {})
       => regAsk.out = "throw"
  /\ (regAsk.op = "decode" /\ RegAccepted(regAsk.key, Len(regLog)) # {})
       => regAsk.out # "throw"

\* After another code was registered, decode for an unregistered code
\* threw.
C22_Witness ==
  /\ regAsk.op = "decode" /\ regAsk.out = "throw"
  /\ regAsk.key = 0
  /\ RegAccepted(65535, Len(regLog)) # {}

\* C24: create, getCtor and getWorker answer with the class and the worker
\* of the latest registration of the code; a registration without worker
\* leaves the code without worker; registrations of other codes change
\* nothing.
C24_LastRegistrationWins ==
  RegAccepted(regAsk.key, Len(regLog)) # {} =>
    /\ regAsk.op \in {"create", "getCtor"}
         => regAsk.cls = RegLatest(regAsk.key, Len(regLog)).cls
    /\ regAsk.op = "getWorker"
         => /\ regAsk.out = "ok"
            /\ regAsk.worker = RegLatest(regAsk.key, Len(regLog)).worker

\* A code was registered with a worker, another code was registered, the
\* first code was registered again without worker, and getWorker answered
\* with no worker.
C24_Witness ==
  /\ regAsk.op = "getWorker" /\ regAsk.out = "ok" /\ regAsk.worker = "none"
  /\ Len(regLog) = 3 /\ regAsk.key = 0
  /\ regLog[1].messageType = 0 /\ regLog[1].worker = "ok"
  /\ regLog[2].messageType = 65535
  /\ regLog[3].messageType = 0 /\ regLog[3].worker = "none"

\* C25: registerMessage throws for a messageType outside 0..65535 and
\* leaves the registry as it was; createPayload throws for such a type
\* and neither returns a payload nor signs.
C25_TypeOutsideRangeRejected ==
  /\ \A i \in 1..Len(regLog) :
       regLog[i].messageType \notin 0..65535
         => regLog[i].out = "throw" /\ ~regLog[i].changed
  /\ \A c \in RegCodes : c \notin 0..65535 => ~classes[c].registered
  /\ (created.out # "none" /\ created.type \notin 0..65535)
       => created.out = "throw" /\ created.hex = <<>> /\ ~created.signed

C25_Witness ==
  /\ created.out = "throw" /\ created.type = 65536
  /\ Len(regLog) = 2
  /\ regLog[1].out = "ok"
  /\ regLog[2].messageType = -1 /\ regLog[2].out = "throw"

(***************************************************************************)
(* The session's prefix (SpecPrefix).  A session is created with a prefix  *)
(* string of ASCII and other characters, and builds payloads.              *)
(***************************************************************************)
MaxPrefixLen == 5

\* "A", e with an acute accent (2 bytes in UTF-8), the euro sign (3 bytes).
PrefixChars == {65, 233, 8364}

RECURSIVE StringsUpTo(_)
StringsUpTo(n) ==
  IF n = 0 THEN {<<>>}
  ELSE StringsUpTo(n - 1)
         \cup {Append(s, c) : s \in {t \in StringsUpTo(n - 1) : Len(t) = n - 1},
                              c \in PrefixChars}

PrefixStrings == StringsUpTo(MaxPrefixLen)

InitPrefix ==
  /\ prefixString \in PrefixStrings
  /\ universe = {1}
  /\ IngestFresh /\ SigIdle /\ BusFresh /\ DecIdle /\ PureIdle

NextPrefix == \E messageType \in RegCodes : CreatePayload(messageType)

SpecPrefix == InitPrefix /\ [][NextPrefix]_vars

\* The prefix field of the frame that createPayload returned.
CreatedPrefixField == Subarray(hexToBytes(created.hex), 5, 9)

IsAscii(s) == \A i \in 1..Len(s) : s[i] < 128

\* C30 as stated: the 4 prefix bytes of every payload are the characters of
\* the prefix string, padded with 0x00 and cut to 4.
C30_PrefixIsPaddedString ==
  created.out = "ok" => CreatedPrefixField = padEndSlice(created.prefix)

\* C30, amended: the 4 prefix bytes of every payload are the first 4 bytes
\* of the UTF-8 encoding of the prefix string padded with NUL and cut to 4
\* characters; they are those 4 characters when the characters are ASCII.
\* The rest of the frame is in its place: it parses, with the type given.
C30_PrefixIsUtf8OfPaddedString ==
  created.out = "ok" =>
    /\ CreatedPrefixField
         = Subarray(Flatten([i \in 1..4 |->
                               utf8Encode(padEndSlice(created.prefix)[i])]),
                    0, 4)
    /\ IsAscii(padEndSlice(created.prefix))
         => CreatedPrefixField = padEndSlice(created.prefix)
    /\ fromHex(created.hex).ok
    /\ fromHex(created.hex).p.type = created.type
    /\ fromHex(created.hex).p.prefix = CreatedPrefixField

\* C30 witness: a payload of a session whose prefix starts with a
\* character outside ASCII; the frame has the first 4 bytes of its
\* encoding, not its characters.
C30_Witness ==
  /\ created.out = "ok"
  /\ created.prefix = <<233, 65, 65, 65, 65>>
  /\ CreatedPrefixField = <<195, 169, 65, 65>>
  /\ CreatedPrefixField # padEndSlice(created.prefix)

(***************************************************************************)
(* Connecting the session (SpecConnect).  Kaspeak.connect is called any    *)
(* number of times, and the node delivers blocks to the RPC client's       *)
(* block-added listener.  The awaits of connect are taken to complete      *)
(* before the next call or block.                                          *)
(***************************************************************************)
MaxConnects == 3

MaxDelivered == 3

ConnBlocks == {1, 2}

\* KaspaWasm.connect: returns with a warning while an RpcClient exists,
\* otherwise creates one (with its block-added listener) and connects it.
kaspaConnect(clients, live) ==
  IF live THEN [clients |-> clients, live |-> live]
  ELSE [clients |-> clients + 1, live |-> TRUE]

\* KaspaWasm.subscribe: wraps the callback in a new closure and adds the
\* closure to the set of handlers.
subscribe(handlers) == handlers + 1

\* The block-added listener: every handler of the set is called with the
\* block, and each handler calls processTransactions once.
processCallsPerBlock(handlers) == handlers

InitConnect ==
  /\ prefixString = <<84, 69, 83, 84>>
  /\ universe = {1}
  /\ IngestFresh /\ SigIdle /\ BusFresh /\ DecIdle /\ PureIdle

ConnRest ==
  <<ingestVars, sigVars, busVars, decVars, frameVars, outVars, setVars,
    regVars, feeVars, chainVars, extVars>>

\* sdk.connect(networkId, url)
KaspeakConnect ==
  /\ connects < MaxConnects
  /\ LET k == kaspaConnect(rpcClients, rpcLive)
     IN  /\ rpcClients' = k.clients
         /\ rpcLive' = k.live
  /\ eventHandlers' = subscribe(eventHandlers)
  /\ connects' = connects + 1
  /\ UNCHANGED <<passes, ConnRest>>

\* The node announces a block to the connected client.
RpcBlockAdded(blk) ==
  /\ rpcLive
  /\ Len(passes) < MaxDelivered
  /\ passes' = Append(passes,
                      [blk |-> blk, connects |-> connects,
                       calls |-> processCallsPerBlock(eventHandlers)])
  /\ UNCHANGED <<rpcClients, rpcLive, eventHandlers, connects, ConnRest>>

NextConnect ==
  \/ KaspeakConnect
  \/ \E blk \in ConnBlocks : RpcBlockAdded(blk)

SpecConnect == InitConnect /\ [][NextConnect]_vars

\* C26: a second Kaspeak.connect on a connected session is a no-op: one RPC
\* client, one block handler, and every delivered block is passed to
\* processTransactions exactly once.
C26_SecondConnectIsNoOp ==
  /\ rpcClients <= 1
  /\ eventHandlers <= 1
  /\ \A k \in 1..Len(passes) : passes[k].calls = 1

(***************************************************************************)
(* The priority fee (SpecFee).  Amounts are kept in two limbs so that      *)
(* 10^10 sompi fits: a bigint of sompi is [kas, sompi] with value          *)
(* kas * 10^8 + sompi, and the number given to setPriorityFee is           *)
(* [neg, kas, frac] with magnitude kas + frac / 10^9 KAS, so that frac     *)
(* carries one decimal digit below the sompi.  Numbers are exact decimals. *)
(***************************************************************************)
MaxFeeCalls == 2

SompiPerKas == 100000000

Fee(neg, kas, frac) == [neg |-> neg, kas |-> kas, frac |-> frac]

Sompi(kas, sompi) == [kas |-> kas, sompi |-> sompi]

\* -1 KAS, -0.6, -0.5 and -0.1 sompi, -0, 0, 0.4 and 0.5 sompi, 0.1 KAS,
\* half a sompi below 100 KAS, 100 KAS, a tenth of a sompi above, 250 KAS.
FeeInputs ==
  {Fee(TRUE, 1, 0), Fee(TRUE, 0, 6), Fee(TRUE, 0, 5), Fee(TRUE, 0, 1),
   Fee(TRUE, 0, 0), Fee(FALSE, 0, 0), Fee(FALSE, 0, 4), Fee(FALSE, 0, 5),
   Fee(FALSE, 0, 100000000), Fee(FALSE, 99, 999999995), Fee(FALSE, 100, 0),
   Fee(FALSE, 100, 1), Fee(FALSE, 250, 0)}

\* feeKAS > 100
feeAbove100(feeKAS) ==
  /\ ~feeKAS.neg
  /\ feeKAS.kas > 100 \/ (feeKAS.kas = 100 /\ feeKAS.frac > 0)

\* Lines 97-100: a fee above 100 KAS is replaced by 100.
clampFee(feeKAS) == IF feeAbove100(feeKAS) THEN Fee(FALSE, 100, 0) ELSE feeKAS

\* Math.round(feeKAS * 1e8): the nearest integer, a tie going up.  The
\* result's magnitude in sompi, with its sign; Math.round gives -0 for a
\* number in [-0.5, 0).
mathRound(feeKAS) ==
  LET q == feeKAS.frac \div 10
      d == feeKAS.frac % 10
      up == IF feeKAS.neg THEN d > 5 ELSE d >= 5
      r == IF up THEN q + 1 ELSE q
  IN  [neg |-> feeKAS.neg,
       kas |-> IF r = SompiPerKas THEN feeKAS.kas + 1 ELSE feeKAS.kas,
       sompi |-> IF r = SompiPerKas THEN 0 ELSE r]

\* v < 0n, for v == BigInt(Math.round(...)): BigInt(-0) is 0n.
bigIntNegative(r) == r.neg /\ (r.kas > 0 \/ r.sompi > 0)

\* setPriorityFee(feeKAS): the outcome and the stored fee after the call.
setPriorityFee(stored, feeKAS) ==
  LET v == mathRound(clampFee(feeKAS))
  IN  IF bigIntNegative(v) THEN [out |-> "throw", fee |-> stored]
      ELSE [out |-> "ok", fee |-> Sompi(v.kas, v.sompi)]

InitFee ==
  /\ prefixString = <<84, 69, 83, 84>>
  /\ universe = {1}
  /\ IngestFresh /\ SigIdle /\ BusFresh /\ DecIdle /\ PureIdle

FeeRest ==
  <<ingestVars, sigVars, busVars, decVars, frameVars, outVars, setVars,
    regVars, connVars, chainVars, extVars>>

\* sdk.setPriorityFee(feeKAS)
SetPriorityFee(feeKAS) ==
  /\ Len(feeLog) < MaxFeeCalls
  /\ LET r == setPriorityFee(priorityFeeSompi, feeKAS)
     IN  /\ priorityFeeSompi' = r.fee
         /\ feeLog' = Append(feeLog,
                             [fee |-> feeKAS, out |-> r.out,
                              before |-> priorityFeeSompi,
                              after |-> r.fee])
  /\ UNCHANGED FeeRest

NextFee == \E feeKAS \in FeeInputs : SetPriorityFee(feeKAS)

SpecFee == InitFee /\ [][NextFee]_vars

FeeNegative(f) == f.neg /\ (f.kas > 0 \/ f.frac > 0)

FeeInRange(v) == v.kas < 100 \/ (v.kas = 100 /\ v.sompi = 0)

\* round(value * 10^8) of a value of [0, 100] KAS.
FeeRounded(f) ==
  LET r == (f.frac + 5) \div 10
  IN  IF r = SompiPerKas THEN Sompi(f.kas + 1, 0) ELSE Sompi(f.kas, r)

\* C27: the stored fee is always within 0..10^10 sompi; a call with a value
\* above 100 stores 100 KAS, a call with a value of [0, 100] stores its
\* rounding to sompi, and a call with a negative value fails and leaves
\* the stored fee as it was.
C27_FeeClampedNegativeRejected ==
  /\ FeeInRange(priorityFeeSompi)
  /\ \A k \in 1..Len(feeLog) :
       LET c == feeLog[k]
       IN  /\ feeAbove100(c.fee)
                => c.out = "ok" /\ c.after = Sompi(100, 0)
           /\ (~FeeNegative(c.fee) /\ ~feeAbove100(c.fee))
                => c.out = "ok" /\ c.after = FeeRounded(c.fee)
           /\ FeeNegative(c.fee)
                => c.out = "throw" /\ c.after = c.before

(***************************************************************************)
(* crypto: the identifier chain (SpecChain).  The curve's group is a       *)
(* cyclic group of prime order N; a small prime stands for the order of    *)
(* secp256k1.  A point is its discrete logarithm d in 1..N-1 (0 is the     *)
(* point at infinity); the points d and N - d are each other's negation,   *)
(* so they share the x coordinate and differ in the parity of y.           *)
(***************************************************************************)
N == 13

\* The bigint operator %: the remainder has the sign of the dividend.
jsRem(a, m) == IF a >= 0 THEN a % m ELSE 0 - ((0 - a) % m)

\* utils.ts mod
mod(a, m) ==
  LET r == jsRem(a, m)
  IN  IF r >= 0 THEN r ELSE r + m

\* egcdLehmer's last loop, the one that runs for b below 2^30.
RECURSIVE egcdLoop(_, _, _, _, _, _)
egcdLoop(a, b, x, y, u, v) ==
  IF b = 0 THEN [g |-> a, x |-> x, y |-> y]
  ELSE LET q == a \div b
       IN  egcdLoop(b, a - q * b, u, v, x - q * u, y - q * v)

egcdLehmerThrows(a, b) == a <= 0 \/ b <= 0

egcdLehmer(a, b) == egcdLoop(a, b, 1, 0, 0, 1)

\* A faulty variant of modInv that returns its argument reduced.
modInvNotInverted(a, n) == mod(a, n)

\* modInv(a, n) for an invertible a.
modInv(a, n) ==
  LET r == egcdLehmer(mod(a, n), n)
  IN  IF r.g = 1 THEN mod(r.x, n) ELSE mod(0 - r.x, n)

modInvThrows(a, n) ==
  \/ egcdLehmerThrows(mod(a, n), n)
  \/ egcdLehmer(mod(a, n), n).g \notin {1, -1}

\* exponent.toString(2), most significant bit first.
RECURSIVE toString2(_)
toString2(e) ==
  IF e < 2 THEN <<e>> ELSE Append(toString2(e \div 2), e % 2)

\* parseInt(bits, 2)
RECURSIVE parseInt2(_)
parseInt2(bits) ==
  IF bits = <<>> THEN 0
  ELSE 2 * parseInt2(SubSeq(bits, 1, Len(bits) - 1)) + bits[Len(bits)]

\* powModW4's table: tbl[j] is base^j.
RECURSIVE tbl(_, _, _)
tbl(base, modulus, j) ==
  IF j = 0 THEN 1
  ELSE IF j = 1 THEN jsRem(base, modulus)
  ELSE jsRem(tbl(base, modulus, j - 1) * jsRem(base, modulus), modulus)

\* Four squarings.
RECURSIVE squareTimes(_, _, _)
squareTimes(result, modulus, times) ==
  IF times = 0 THEN result
  ELSE squareTimes(jsRem(result * result, modulus), modulus, times - 1)

\* powModW4's while loop over the windows of four bits from position i.
RECURSIVE windowLoop(_, _, _, _, _)
windowLoop(result, bits, i, base, modulus) ==
  IF i >= Len(bits) THEN result
  ELSE
    LET sq == squareTimes(result, modulus, 4)
        last == IF i + 4 <= Len(bits) THEN i + 4 ELSE Len(bits)
        chunk == parseInt2(SubSeq(bits, i + 1, last))
        r == IF chunk # 0
               THEN jsRem(sq * tbl(base, modulus, chunk), modulus)
               ELSE sq
    IN  windowLoop(r, bits, i + 4, base, modulus)

\* powModW4(base, exponent, modulus) for an exponent >= 0.
powModW4(base, exponent, modulus) ==
  IF exponent = 0 THEN 1
  ELSE
    LET bits == toString2(exponent)
        first == IF Len(bits) % 4 = 0 THEN 4 ELSE Len(bits) % 4
    IN  windowLoop(tbl(base, modulus, parseInt2(SubSeq(bits, 1, first))),
                   bits, first, base, modulus)

\* Secp256k1.mul: the scalar is reduced with %, a zero scalar or the point
\* at infinity gives the point at infinity.
mul(p, priv) ==
  LET privBigInt == jsRem(priv, N)
  IN  IF p = 0 \/ privBigInt = 0 THEN 0 ELSE (p * privBigInt) % N

\* The affine coordinates of a point.
pointX(p) == IF 2 * p < N THEN p ELSE N - p

pointYOdd(p) == 2 * p > N

\* toCompressed fails for the point at infinity (modInv(0, P)).
toCompressedThrows(p) == p = 0

\* Point.toCompressed: 0x02 or 0x03 by the parity of y, then x.
toCompressed(p) == <<IF pointYOdd(p) THEN 3 ELSE 2, pointX(p)>>

\* Point.fromBytes of a compressed point (computeY).
pointFromBytes(bytes) == IF bytes[1] = 3 THEN N - bytes[2] ELSE bytes[2]

\* Identifier.fromBytes(p.toCompressed())
identifierOf(p) ==
  IF toCompressedThrows(p) THEN [out |-> "throw", id |-> <<>>]
  ELSE [out |-> "ok", id |-> toCompressed(p)]

\* Identifier.fromChainKey(chainKey, index, publicKey)
fromChainKey(chainKey, index, publicKey) ==
  IF index < 1 THEN [out |-> "throw", id |-> <<>>]
  ELSE identifierOf(mul(publicKey, powModW4(chainKey, index, N)))

\* Identifier.jump(factor)
jump(id, factor) == identifierOf(mul(pointFromBytes(id), factor))

\* id.next(chainKey, count)
next(id, chainKey, count) ==
  jump(id, IF count = 1 THEN chainKey ELSE powModW4(chainKey, count, N))

\* id.prev(chainKey, count)
prev(id, chainKey, count) ==
  LET kInv == modInv(chainKey, N)
  IN  jump(id, IF count = 1 THEN kInv ELSE powModW4(kInv, count, N))

MaxChainSteps == 2

\* Chain keys not divisible by N, below and above N.
ChainKeys == {1, 2, 6, 12, 15, 25}

\* Indices below 1, small ones, and ones of more than four bits.
ChainIndices == {-1, 0, 1, 2, 3, 16, 17}

ChainPoints == {1, 5, 12}

NextCounts == {0, 1, 2, 17}

PrevCounts == {1, 2}

InitChain ==
  /\ prefixString = <<84, 69, 83, 84>>
  /\ universe = {1}
  /\ IngestFresh /\ SigIdle /\ BusFresh /\ DecIdle
  /\ FrameIdle /\ OutIdle /\ SetIdle /\ RegIdle /\ FeeIdle /\ ConnIdle
  /\ ExtIdle
  /\ chainIn \in [k : ChainKeys, i : ChainIndices, pk : ChainPoints]
  /\ chainOut = NoChain

ChainRest ==
  <<ingestVars, sigVars, busVars, decVars, frameVars, outVars, setVars,
    regVars, feeVars, connVars, extVars>>

\* Identifier.fromChainKey(k, i, PK)
FromChainKey ==
  /\ chainOut.op = "none"
  /\ LET r == fromChainKey(chainIn.k, chainIn.i, chainIn.pk)
     IN  chainOut' = [op |-> "fromChainKey", out |-> r.out, id |-> r.id,
                      at |-> chainIn.i, steps |-> 0, fromId |-> <<>>,
                      c |-> 0]
  /\ UNCHANGED <<chainIn, ChainRest>>

\* id = id.next(k, count)
StepNext(count) ==
  /\ chainOut.out = "ok" /\ chainOut.steps < MaxChainSteps
  /\ LET r == next(chainOut.id, chainIn.k, count)
     IN  chainOut' = [op |-> "next", out |-> r.out, id |-> r.id,
                      at |-> chainOut.at + count,
                      steps |-> chainOut.steps + 1,
                      fromId |-> chainOut.id, c |-> count]
  /\ UNCHANGED <<chainIn, ChainRest>>

\* id = id.prev(k, count)
StepPrev(count) ==
  /\ chainOut.out = "ok" /\ chainOut.steps < MaxChainSteps
  /\ ~modInvThrows(chainIn.k, N)
  /\ LET r == prev(chainOut.id, chainIn.k, count)
     IN  chainOut' = [op |-> "prev", out |-> r.out, id |-> r.id,
                      at |-> chainOut.at - count,
                      steps |-> chainOut.steps + 1,
                      fromId |-> chainOut.id, c |-> count]
  /\ UNCHANGED <<chainIn, ChainRest>>

NextChain ==
  \/ FromChainKey
  \/ \E count \in NextCounts : StepNext(count)
  \/ \E count \in PrevCounts : StepPrev(count)

SpecChain == InitChain /\ [][NextChain]_vars

\* count successive next(k) steps from id.
RECURSIVE NextTimes(_, _, _)
NextTimes(id, chainKey, count) ==
  IF count = 0 THEN id
  ELSE LET r == next(id, chainKey, 1)
       IN  IF r.out = "throw" THEN <<>>
           ELSE NextTimes(r.id, chainKey, count - 1)

MaxDataLen == 300

MaxSizeCalls == 1

SizeLengths == {0, 1, 2, 3, 16, 255, 256, MaxDataLen}

\* A faulty variant of createTransaction that reserves room for the data
\* only.
createTransactionDataOnly(dataLength, fee) ==
  [done |-> TRUE, dataLength |-> dataLength, payloadSize |-> dataLength,
   priorityFee |-> fee]

\* Kaspeak.createTransaction(dataLength): the arguments handed to
\* kaspa.createTransaction, which allocates payloadSize bytes.
createTransaction(dataLength, fee) ==
  [done |-> TRUE, dataLength |-> dataLength,
   payloadSize |-> dataLength + HEADER_SIZE, priorityFee |-> fee]

InitSize ==
  /\ prefixString \in SessionPrefixes
  /\ universe = {1}
  /\ IngestFresh /\ SigIdle /\ BusFresh /\ DecIdle /\ PureIdle

SizeRest ==
  <<ingestVars, busVars, decVars, frameVars, outVars, setVars, regVars,
    feeVars, connVars, chainVars, wasmVars, balVars, signedPl, signedOut, curPl,
    curOut, verdict, sigPhase>>

\* sdk.createPayload(outpointIds, messageType, identifier, data)
CreatePayloadOf(len) ==
  /\ Len(sigOracle) < MaxSizeCalls
  /\ LET r == createPayload(sigOracle, prefixString, 6, TxIdHex(10), 1,
                            PubKeyOf(7), Rep(len, 7))
     IN  /\ sizeOut' = [done |-> TRUE, L |-> len, hex |-> toHex(r.p)]
         /\ sigOracle' = r.oracle
  /\ UNCHANGED <<txAsk, SizeRest>>

\* sdk.createTransaction(dataLength)
CreateTransaction(dataLength) ==
  /\ txAsk' = createTransaction(dataLength, priorityFeeSompi)
  /\ UNCHANGED <<sizeOut, sigOracle, SizeRest>>

NextSize ==
  \/ \E len \in SizeLengths : CreatePayloadOf(len)
  \/ \E dataLength \in SizeLengths : CreateTransaction(dataLength)

SpecSize == InitSize /\ [][NextSize]_vars

\* C31: the payload hex returned by createPayload for data of length L
\* decodes to exactly L + 143 bytes, and createTransaction(L) asks the
\* ledger to reserve exactly that many.
C31_PayloadSizeIsReserved ==
  /\ sizeOut.done
       => /\ Len(sizeOut.hex) % 2 = 0
          /\ Len(hexToBytes(sizeOut.hex)) = sizeOut.L + 143
  /\ txAsk.done => txAsk.payloadSize = txAsk.dataLength + 143
  /\ (sizeOut.done /\ txAsk.done /\ txAsk.dataLength = sizeOut.L)
       => Len(hexToBytes(sizeOut.hex)) = txAsk.payloadSize

\* C31 witness: a payload of 256 data bytes and a transaction asked for
\* the same length.
C31_Witness ==
  /\ sizeOut.done /\ sizeOut.L = 256
  /\ txAsk.done /\ txAsk.dataLength = 256
  /\ Len(hexToBytes(sizeOut.hex)) = 399
  /\ txAsk.payloadSize = 399

(***************************************************************************)
(* WASM initialisation (SpecWasm): wasm/kaspa ensureKaspaInitialized and   *)
(* utils/compression ensureZstdInitialized, called by Kaspeak.create and   *)
(* by the signing and compression helpers.  Each is an async function      *)
(* that tests its module-level flag, awaits the initialisation and sets    *)
(* the flag when the await settles; calls made meanwhile run concurrently. *)
(***************************************************************************)
MaxSessions == 2

MaxLoneCalls == 1

WasmRun ==
  [kaspaInitialized |-> kaspaInitialized, zstdInitialized |-> zstdInitialized,
   inits |-> wasmInits, calls |-> ensureCalls]

\* ensureKaspaInitialized() up to its await: a call that finds the flag set
\* returns; otherwise it starts kaspa's default init and awaits it, or, in
\* a build without that export, warns and sets the flag at once.
ensureKaspaInitialized(st, owner) ==
  IF st.kaspaInitialized
    THEN [st EXCEPT !.calls = Append(@, [mod |-> "kaspa", owner |-> owner,
                                         state |-> "done"])]
  ELSE IF kaspaDefaultIsFunction
    THEN [st EXCEPT !.inits.kaspa = @ + 1,
                    !.calls = Append(@, [mod |-> "kaspa", owner |-> owner,
                                         state |-> "awaitInit"])]
  ELSE [st EXCEPT !.kaspaInitialized = TRUE,
                  !.calls = Append(@, [mod |-> "kaspa", owner |-> owner,
                                       state |-> "done"])]

\* ensureZstdInitialized() up to its await.
ensureZstdInitialized(st, owner) ==
  IF st.zstdInitialized
    THEN [st EXCEPT !.calls = Append(@, [mod |-> "zstd", owner |-> owner,
                                         state |-> "done"])]
  ELSE [st EXCEPT !.inits.zstd = @ + 1,
                  !.calls = Append(@, [mod |-> "zstd", owner |-> owner,
                                       state |-> "awaitInit"])]

\* Promise.all([ensureZstdInitialized(), ensureKaspaInitialized()]): both
\* calls are made before either is awaited.
initWasmModules(st, owner) ==
  ensureKaspaInitialized(ensureZstdInitialized(st, owner), owner)

CommitWasm(st) ==
  /\ kaspaInitialized' = st.kaspaInitialized
  /\ zstdInitialized' = st.zstdInitialized
  /\ wasmInits' = st.inits
  /\ ensureCalls' = st.calls

WasmRest ==
  <<ingestVars, sigVars, busVars, decVars, frameVars, outVars, setVars,
    regVars, feeVars, connVars, chainVars, sizeVars, balVars,
    kaspaDefaultIsFunction>>

EnsureCallsOf(owner) ==
  {k \in 1..Len(ensureCalls) : ensureCalls[k].owner = owner}

EnsureCallsSettled(owner) ==
  \A k \in EnsureCallsOf(owner) : ensureCalls[k].state = "done"

\* Kaspeak.create(privateKey, prefix) up to `await sdk.initWasmModules()`.
KaspeakCreate ==
  /\ Len(sessions) < MaxSessions
  /\ CommitWasm(initWasmModules(WasmRun, Len(sessions) + 1))
  /\ sessions' = Append(sessions, "initWasmModules")
  /\ UNCHANGED WasmRest

\* The awaited initialisation of call k settles and the call sets its flag.
SettleInit(k) ==
  /\ ensureCalls[k].state = "awaitInit"
  /\ ensureCalls' = [ensureCalls EXCEPT ![k].state = "done"]
  /\ kaspaInitialized' = (kaspaInitialized \/ ensureCalls[k].mod = "kaspa")
  /\ zstdInitialized' = (zstdInitialized \/ ensureCalls[k].mod = "zstd")
  /\ UNCHANGED <<wasmInits, sessions, WasmRest>>

\* Kaspeak.create goes on with postInit: KaspaWasm.create calls
\* ensureKaspaInitialized once more.
PostInit(sdk) ==
  /\ sessions[sdk] = "initWasmModules"
  /\ EnsureCallsSettled(sdk)
  /\ CommitWasm(ensureKaspaInitialized(WasmRun, sdk))
  /\ sessions' = [sessions EXCEPT ![sdk] = "postInit"]
  /\ UNCHANGED WasmRest

\* Kaspeak.create returns the session.
Created(sdk) ==
  /\ sessions[sdk] = "postInit"
  /\ EnsureCallsSettled(sdk)
  /\ sessions' = [sessions EXCEPT ![sdk] = "ready"]
  /\ UNCHANGED <<kaspaInitialized, zstdInitialized, wasmInits, ensureCalls,
                 WasmRest>>

LoneCalls(module) ==
  {k \in EnsureCallsOf(0) : ensureCalls[k].mod = module}

\* compressZstd / decompressZstd called by the serializer.
CompressZstd ==
  /\ Cardinality(LoneCalls("zstd")) < MaxLoneCalls
  /\ CommitWasm(ensureZstdInitialized(WasmRun, 0))
  /\ UNCHANGED <<sessions, WasmRest>>

\* Schnorr.sign / Schnorr.verify called without a session.
SchnorrCall ==
  /\ Cardinality(LoneCalls("kaspa")) < MaxLoneCalls
  /\ CommitWasm(ensureKaspaInitialized(WasmRun, 0))
  /\ UNCHANGED <<sessions, WasmRest>>

InitWasm ==
  /\ prefixString = <<84, 69, 83, 84>>
  /\ universe = {1}
  /\ IngestFresh /\ SigIdle /\ BusFresh /\ DecIdle
  /\ FrameIdle /\ OutIdle /\ SetIdle
  /\ RegIdle /\ FeeIdle /\ ConnIdle /\ ChainIdle /\ SizeIdle /\ BalIdle
  /\ kaspaInitialized = FALSE /\ zstdInitialized = FALSE
  /\ kaspaDefaultIsFunction \in BOOLEAN
  /\ wasmInits = [kaspa |-> 0, zstd |-> 0]
  /\ ensureCalls = <<>> /\ sessions = <<>>

NextWasm ==
  \/ KaspeakCreate
  \/ \E k \in 1..Len(ensureCalls) : SettleInit(k)
  \/ \E sdk \in 1..Len(sessions) : PostInit(sdk)
  \/ \E sdk \in 1..Len(sessions) : Created(sdk)
  \/ CompressZstd
  \/ SchnorrCall

SpecWasm == InitWasm /\ [][NextWasm]_vars

\* C37: the WASM initialisation behind ensureKaspaInitialized, and the one
\* behind ensureZstdInitialized, is started at most once for any number of
\* calls, overlapping ones included.
C37_WasmInitAtMostOnce ==
  /\ wasmInits.kaspa <= 1
  /\ wasmInits.zstd <= 1

=============================================================================
